CONSTANTS
    Validator = Validator
    Stranger = Stranger
    Parent <- TheParent
    Values <- FewValues
SPECIFICATION RulesSpec
INVARIANTS
    SealBindsBlock
    SealedBlockPasses
    EnvironmentsAgree

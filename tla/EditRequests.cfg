SPECIFICATION Spec
CONSTANTS
    auto = auto
    plain = plain
    big = big
    small = small
    Blank = Blank
    NoName = NoName
    Stems <- MCStems
    BeforeMark <- MCBeforeMark
    BeforeSemicolon <- MCBeforeSemicolon
    Names <- MCNames
    Generic <- MCGeneric
    Instruct <- MCInstruct
    Answers <- MCAnswers
    Texts <- MCTexts
    Paths <- MCPaths
    Urls <- MCUrls
    Sites <- MCSites
INVARIANTS
    RequestsTypeOK
    
    PromptFileIsWritable
    AnsweredUrlLeadsBack
    AsksAnOfferedModel
CHECK_DEADLOCK FALSE

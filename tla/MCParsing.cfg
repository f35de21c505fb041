SPECIFICATION ParsingSpec
CONSTANTS
    Uploads <- MCUploads
    Vocabularies <- MCVocabularies
    Styles <- MCStyles
    Rels <- MCRels
    ImageBudget = 3
    ZipMaxEntries = 2
    ZipMaxRatio = 4
    ParseMaxBytes = 1
INVARIANTS
    ParsingTypeOK
    
    InReadingOrder
    HeadingsAreMarked
CHECK_DEADLOCK FALSE

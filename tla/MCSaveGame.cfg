SPECIFICATION Spec
CONSTANTS
    Files = {1, 2}
    Size = 3
    Content <- MCContent
    Blank = 0
    Erased = Erased
    Gains <- MCGains
    Stages <- MCStages
    Weight <- MCWeight
    Names = {n1, n2}
    NameWeight <- MCNameWeight
    Cards = {1}
    SD = 2
    Configs = {c0, c1}
    Default = c0
    NoConfig = NoConfig
    NoBlob = NoBlob
CONSTRAINT AfterFailure
SYMMETRY Symmetry
VIEW View
INVARIANTS
    TypeOK
    PassingSaves
    OwnProgress
    Survives

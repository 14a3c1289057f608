\* Three processes opening files of every shape, three evolved columns.
SPECIFICATION AdmissionSpec
CONSTANTS
    Process = {p1, p2, p3}
    TableOrder <- SmallTableOrder
    EvolvedTable <- SmallEvolvedTable
    Identity = {i1}
    Label = {adhoc}
    OtherToken = OtherToken
    NoToken = NoToken
    NoRow = NoRow
    Unprotected = Unprotected
SYMMETRY Symmetry
INVARIANTS
    AdmissionTypeOK
    AdmittedSeesSchema
    SomebodyGetsIn
    ActsAreAuthorised
    TokensAreKnown

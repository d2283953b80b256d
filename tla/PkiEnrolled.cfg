SPECIFICATION FairSpec
CONSTANTS
    Clients = {c1}
    Names = {"10.0.0.5", "localhost", "node.example"}
    Local = {"10.0.0.5"}
    Faults = {"crash", "write", "remove", "client"}
    MaxFaults = 3
    MaxTries = 2
INVARIANTS EnrolledConnects
PROPERTIES IssuesWhatItAccepts ComesUpUnlessHalfMade

CONSTANTS
    Nodes = {"x", "?a", "false"}
    Vars = {"?a"}
    MaxTerms = 4
SPECIFICATION Spec
INVARIANTS
    TermsInterned
    ReadBack
PROPERTY AddressesStay

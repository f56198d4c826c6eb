CONSTANTS
    Node <- MCNode
    Index = {i1, i2}
    Width = 2
    RuleList <- MCRuleList
    Name = {"*", "a"}
    Star = "*"
    NamedFirst = FALSE
    MaxIndices = 2
    None = None
    Same = Same
SPECIFICATION Spec
INVARIANT TablesExact
INVARIANT PeersMirror
INVARIANT OwnAddressRouted
 

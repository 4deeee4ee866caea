SPECIFICATION Spec
CONSTANTS
    BinaryOps = {"*", "//"}
    PrefixOps = {}
    LeafKinds = {"variable"}
    MaxDepth = 3
INVARIANT InlinedTextMeansExpression

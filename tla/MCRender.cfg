SPECIFICATION Spec
CONSTANTS
    BinaryOps = {"or", "and", "==", "|", "^", "&", "<<", "+", "-", "*", "/", "//", "%", "**"}
    PrefixOps = {"-", "not"}
    LeafKinds = {"variable", "negative", "index"}
    MaxDepth = 3
INVARIANT MisreadExactlyWhenListed

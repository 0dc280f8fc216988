\* strings.Abbreviate against its doc comment, strings of up to seven bytes.
CONSTANTS
    Elems = {"a", "b"}
    Names = {"x", "y", "z"}
    Chars = {"a", "b"}
    GroupKeys = {"k1", "k2"}
    MaxLen = 3
    MaxStrLen = 7
SPECIFICATION Spec
INVARIANT AbbreviateAsDocumented

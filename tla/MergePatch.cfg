\* The comment in mergePatch() against what the code does when a map meets a scalar or a list.
SPECIFICATION Spec
CONSTANTS
    Key = {"a", "b"}
    Content = {"x", "y"}
    MaxNodes = 5
PROPERTIES PatchFollowsRfc

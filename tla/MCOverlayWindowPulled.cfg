CONSTANTS
    Screens <- MCScreens
    Heights <- MCHeights
    Passed <- MCPassed
    Spots <- MCSpots
    Scale = 2
    Bar = 1
    CompactWidth = 4
    ExpandedWidth = 8
    ApprovalWidth = 8
    ApprovalHeight = 5
    Padding = 1
    MinHeight = 3
    MaxHeight = 6
    FirstWidth = 6
    EdgeMargin = 1
    Threshold = 2
SPECIFICATION Spec
PROPERTY ResizeKeepsCenter

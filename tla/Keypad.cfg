SPECIFICATION KpdSpec
CONSTANTS
    NbCol = 2
    NbRow = 2
    Button <- MCButton
    None = none
PROPERTIES StrokeIsEarned OneTogglePerPress KeysTold

SPECIFICATION Spec
CONSTANTS
    WordBits = 2
    Words = 3
    ScalarBits = 4
    ByteBits = 2
    MaxLabels = 2
    MaxFixups = 3
    CodeSize = 200
    MaxLines = 3
    MaxLineLen = 3
INVARIANTS NumbersExact CurveExact BodyRestored AssembledOrRefused EditorKeepsText BadRuleIsolated PageAsWritten VolumeLaidOut MouseRealigns
CHECK_DEADLOCK FALSE

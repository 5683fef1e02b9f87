\* FIFOs of two bytes: empty, partly full and full.
SPECIFICATION LinkSpec
CONSTANT Capacity = 2
INVARIANTS HangupsOnly
PROPERTIES LinkUp ScreenLives

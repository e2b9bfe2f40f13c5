\* Two threads watch an input that changes up to four times.
CONSTANTS
  MaxSeconds = 2
  Monitors = {gpio, main}
  MaxInputs = 4
  Repeats = TRUE
  gpio = gpio
  main = main
SPECIFICATION FairSpec
INVARIANTS DelayInv
PROPERTIES FullDelayUnlessReused TrustedInTheEndUnlessReused
CHECK_DEADLOCK FALSE

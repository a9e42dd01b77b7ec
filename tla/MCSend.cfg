SPECIFICATION SendSpec
CONSTANTS
  Targets = {ours, theirs}
  Nowhere = nowhere
  MaxPrices = 2
  MaxSigned = 2
INVARIANT SignsWhatIsShown

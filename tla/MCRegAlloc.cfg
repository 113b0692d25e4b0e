SPECIFICATION Spec
CONSTANTS
  Temps <- MCTemps
  Functions <- MCFunctions
  Gprs = 2
  Xmms = 1
INVARIANTS TypeOK ValueSurvives LowDegreeIsColored SpillChoiceIsCanonical

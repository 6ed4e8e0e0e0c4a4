\* Two links, and two restarts of the loading effect at any point.  The application may end for good.
CONSTANTS
  NLinks = 2
  MaxRestarts = 2
SPECIFICATION VerifySpec
CHECK_DEADLOCK FALSE
INVARIANTS VerifyTypeOK NoOrphan
PROPERTIES PostsWhatIsShown ReportSurvivesPost KeepsLinkPromise VerifySpinnerEnds

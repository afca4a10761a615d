CONSTANTS
    NoImpact = NoImpact
    NoThresholds = NoThresholds
    Deciders = {d1}
    Observers = {o1, o2}
    Configs <- MCConfigs
    ThresholdSets <- MCThresholds
    Readings <- MCReadings
    Requests <- MCRequests
    Pendings <- MCPendings
    Observations <- MCObservations
    OldFiles <- MCOldFiles
    MaxPending = 1
    MaxPoints <- MCMaxPoints
    MaxMore = 1
SYMMETRY ObserverSymmetry
SPECIFICATION Spec
INVARIANTS
    TypeOK
    WelfordIsLeastSquares
    DecideNeverPanics
    CautionOrder
    ReportCoversObservation
PROPERTIES
    ConfidenceNeverFalls

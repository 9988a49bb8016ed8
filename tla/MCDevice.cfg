SPECIFICATION Spec
CONSTANTS
    Names = {n1, n2}
    NoName = NoName
    Generated = Generated
    Settings = {NoSetting, s1}
    NoSetting = NoSetting
    Torn = Torn
    Labels <- MCLabels
    Unnamed = NoName
    MaxRetries = 2
    MaxTimers = 2
INVARIANTS
    SettingsSurvive
    RetryArmed
    AdvertisedIsConfigured
SYMMETRY MCSymmetry

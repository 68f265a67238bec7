SPECIFICATION Spec
CONSTANTS
    MaxInt = 200
    MaxLong = 300
    MaxPorts = 40
    MaxEvents = 60
    Cases <- ShortCases
INVARIANTS
    TypeOK
    OptionsMeanArgs
    RefusedForAReason
    EffectiveSettings
    NoSilentMistake
    SettingsAreSound
CHECK_DEADLOCK FALSE

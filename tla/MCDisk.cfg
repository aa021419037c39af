SPECIFICATION DiskSpec
CONSTANTS
    Keys <- MCKeys
    Earlier <- MCEarlier
    MemorySlug <- MCSlug
    Fields <- MCFields
    Settings <- MCSettings
    SkillSlug <- MCSlugOf
    Descriptions = {"line"}
    CommandRoom = 2
    EventRoom = 1
    MaxCalls = 1
    MaxAsks = 3
    MaxCrashes = 1
    Profiles = {"mine"}
    EnvKeys = {"anthropic"}
    ConfigEdits = 1
    Procs = {"one", "two"}
    Folders = {"home", "repo", "other"}
    Ancestors <- MCAncestors
    Allowlist = {}
    MaxJobs = 4
    Runs = {"one", "two"}
    MaxRecords = 4
    MaxRuns = 3
    SkillNames = {"my-tool", "My Tool"}
    SkillEdits = 1
INVARIANTS
    MemoryHolds
    SettingsTellTrue
    
    
    CatalogTellsOrigin

    
CHECK_DEADLOCK FALSE

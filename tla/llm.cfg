\* Five providers, five settings of LLM_RPM, texts of up to four tokens, one restart.
SPECIFICATION Spec
CONSTANTS
    Providers = {"openai", "azure-openai", "ollama", "bedrock", "vertex"}
    Settings <- MCSettings
    Unset = Unset
    NotANumber = NotANumber
    DefaultRPM = 2
    Minute = 4
    Texts <- MCTexts
    None = None
    Failed = Failed
    MaxRestarts = 1
    MaxTokens = 4
INVARIANTS TypeOK FaithfulAnswer Ceiling

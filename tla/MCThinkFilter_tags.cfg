\* Answers of up to five chunks.
SPECIFICATION Spec
CONSTANTS
    Chunks <- MCChunks
    MaxChunks = 5
    None = None
INVARIANTS TypeOK ShownIsVisible PromptlyShown CachedIsWhole
CHECK_DEADLOCK FALSE

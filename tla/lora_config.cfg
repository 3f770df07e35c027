SPECIFICATION Spec
CONSTANTS
    AskedRegions = {"EU_868", "LORA_24"}
    Faults = {"SetRfFrequency", "SetModulation", "SetPacket", "SetRx"}
    MAX_INIT_FAULTS = 1
INVARIANTS TypeOK TrueMeansTuned InitProgramsTheRest LdroFollowsSymbolTime LongestFrameFits

SPECIFICATION Spec
CONSTANTS
    Reg = {"RxCrc", "TxLastBits"}
    Raw = {}
    Volatile = {}
    Bit = {"b"}
    InitChecked = FALSE
    Asked = {"CRC", "EASY_FRAMING", "AUTO_ISO14443_4", "FORCE_B"}
INVARIANTS FlagsMatch ReadyUnlessFailed ReopenHeals

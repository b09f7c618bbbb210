SPECIFICATION SessionSpec
INVARIANTS InStep IInv
PROPERTY Heals

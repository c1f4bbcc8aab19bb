---------------------------- MODULE MCTypeEngine ----------------------------
EXTENDS TypeEngine
MCDeclModule == [d \in Structs |-> CHOOSE m \in Modules : TRUE]
=============================================================================

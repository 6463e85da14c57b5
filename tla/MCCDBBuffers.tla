---------------------------- MODULE MCCDBBuffers ----------------------------
EXTENDS CDBBuffers
MCResets == {{"partitions"}, {"inputs"}, {"conditions", "true", "false"}}
=============================================================================

----------------------------- MODULE MCCDBDrive -----------------------------
EXTENDS CDBDrive
MCEnds == {1, NoEnd}
=============================================================================

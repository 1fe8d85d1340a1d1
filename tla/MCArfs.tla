------------------------------ MODULE MCArfs ------------------------------
EXTENDS Arfs
CONSTANTS d, f, g, a, b
MCPaths == {<<d>>, <<d, f>>, <<g>>}
MCShippedPath == <<d>>
MCFiles == {File("text", <<>>), File("text", <<a>>), File("binary", <<b, b, b>>)}
MCSuperblock == [u \in 1..SectorSize |-> Nul]
=============================================================================

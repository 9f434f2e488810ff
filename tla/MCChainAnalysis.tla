---------------------------- MODULE MCChainAnalysis ---------------------------
(* ChainAnalysis with files m and n whose names lead to one path in the        *)
(* directory d, as "d/m" and "../d/m" do, and an absolute name x.              *)
EXTENDS ChainAnalysis

CONSTANTS m, n, d, x, mPath, nPath, dPath, xPath

MCSanitize == [file \in {m, n, d, x} |->
                CASE file \in {m, n} -> mPath [] file = d -> dPath [] file = x -> xPath]
MCRawPath  == [file \in {m, n, d, x} |-> IF file = n THEN nPath ELSE MCSanitize[file]]
MCParents  == [p \in {mPath, nPath, dPath, xPath} |-> IF p = mPath THEN {dPath} ELSE {}]
==============================================================================

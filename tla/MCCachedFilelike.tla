-------------------------- MODULE MCCachedFilelike -------------------------
EXTENDS CachedFilelike

(* The last block of the file is short, the reads start and end inside      *)
(* blocks, overlap, or are far apart, and some are as long as the cache.    *)
MCReads ==
  {[from |-> r[1], to |-> r[2]] :
     r \in {<<0, 1>>, <<1, 5>>, <<4, 6>>, <<5, 9>>, <<8, 9>>}}

=============================================================================

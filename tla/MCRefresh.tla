----------------------------- MODULE MCRefresh -----------------------------
(* Refresh, with a record of the last day on which the site vouched for the *)
(* cached file: that of the last 304, or else of the last 200 it was loaded *)
(* from.                                                                    *)
EXTENDS Refresh

VARIABLE confirmed

ConfirmedSpec ==
    /\ Init /\ confirmed = -1
    /\ [][/\ Next
          /\ confirmed' = IF GetNotModified THEN now
                          ELSE IF LoadAndSwap THEN cache.mtime ELSE confirmed
         ]_<<vars, confirmed>>

(* The disk cache covers a restart unless the site has been out of reach    *)
(* for longer than cache.max_age: a cached file that the site confirmed     *)
(* within that time is not discarded as stale at start (a 304 does not      *)
(* renew the cache's mtime).                                                *)
ConfirmedCacheIsFresh ==
    pc = "boot" /\ cache # NoFile /\ confirmed >= 0 /\ now - confirmed <= MaxAge
        => ~Stale
============================================================================

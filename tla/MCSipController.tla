-------------------------- MODULE MCSipController --------------------------
(***************************************************************************)
(* Model-checking instances of SipController: environments that take one   *)
(* liberty, those that take the liberties that some property tolerates     *)
(* together, and one in which both threads are in callbacks of two calls.  *)
(***************************************************************************)
EXTENDS SipController

OneLiberty == {{}} \cup {{"survives", l} : l \in AllLiberties}
Several == {{"survives", "stalePc", "localHangup"},
            {"survives", "stalePc", "noUuid", "localHangup", "relogin"},
            {"survives", "stalePc", "silent", "callWaiting"},
            AllBut({"overlap"}), AllBut({"stalePc", "overlap"})}
TwoCallsAtOnce == {"survives", "overlap", "callWaiting"}
Environment == OneLiberty \cup Several \cup {TwoCallsAtOnce}
=============================================================================

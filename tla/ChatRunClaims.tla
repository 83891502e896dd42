---------------------------- MODULE ChatRunClaims ----------------------------
(***************************************************************************)
(* A statement a comment of the chat path makes and the code does not      *)
(* keep, on an instance without Redis failures, crashes, expiring keys or  *)
(* departing clients.                                                      *)
(***************************************************************************)
EXTENDS MCChatRun

(* store/redis.go:352-354: the script "avoids the read-modify-write race   *)
(* condition when multiple agents respond in parallel (broadcast)".  The   *)
(* namer of the creating run and the upgrade to multi-agent write whole    *)
(* documents back, over a reply appended since they were read.             *)
RepliesSurvive ==
    [][\A r \in Runs :
           (Has(doc, Reply(r)) /\ doc' # NoDoc) => Has(doc', Reply(r))]_vars
=============================================================================

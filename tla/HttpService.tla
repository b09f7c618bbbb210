------------------------------ MODULE HttpService ------------------------------
(***************************************************************************)
(* The callbacks of http_service.cpp on one connection, which has a thread *)
(* of its own (MHD_USE_THREAD_PER_CONNECTION), may carry several requests  *)
(* and may break at any time.  libmicrohttpd calls                         *)
(* callback_request_to_connect when it has the headers, for every piece of *)
(* the body, and when the body is complete, and callback_request_completed *)
(* when a request that it has shown to the program is over.                *)
(*                                                                         *)
(* The SConnectInfo objects on the heap are numbered in the order of their *)
(* allocation.                                                             *)
(***************************************************************************)
EXTENDS Naturals, Sequences

CONSTANTS
    MaxRequests,    \* bound: requests of the connection
    MaxPieces       \* bound: pieces of a body

ASSUME BoundsAssumption == MaxRequests \in Nat /\ MaxPieces \in Nat

Methods == {"GET", "POST", "PUT", "DELETE", "other"}
Uploads == {"POST", "PUT"}

NULL == 0

VARIABLES
    state,      \* of the connection: waiting for a request, about to call the
                \* handler ("headers", "upload", "footers"), sending the reply,
                \* about to report the end ("sent", "failed"), closed
    method,     \* of the request
    left,       \* pieces of its body that are to come
    total,      \* all its pieces
    con_cls,    \* the pointer kept for the request
    infos,      \* the SConnectInfo objects: their fields, and whether deleted
    requests,   \* history: requests so far
    works       \* history: calls of Work_function for this request, with the
                \* pieces in the body each had

input == <<method, total>>
vars  == <<state, input, left, con_cls, infos, requests, works>>

Ids == DOMAIN infos
Live == {i \in Ids : ~ infos[i].deleted}

States == {"waiting", "headers", "upload", "footers", "reply", "sent", "failed", "closed"}

TypeOK ==
    /\ state \in States /\ method \in Methods
    /\ left \in 0 .. total /\ total \in 0 .. MaxPieces
    /\ infos \in Seq([type : Methods, body : 0 .. MaxPieces,
                      request : 1 .. MaxRequests, deleted : BOOLEAN])
    /\ Len(infos) <= requests
    /\ con_cls \in 0 .. Len(infos)
    /\ requests \in 0 .. MaxRequests
    /\ works \subseteq [no : {1, 2}, body : 0 .. MaxPieces]

Init ==
    /\ state = "waiting" /\ method = "GET"
    /\ left = 0 /\ total = 0
    /\ con_cls = NULL /\ infos = << >>
    /\ requests = 0 /\ works = {}
------------------------------------------------------------------------------
(* Faulty variants of definitions below; no specification uses them.       *)

(* The pointer is kept after the object has been deleted.                  *)
CleanUpKeepsPointer ==
    /\ infos' = IF con_cls = NULL THEN infos
                ELSE [infos EXCEPT ![con_cls].deleted = TRUE]
    /\ UNCHANGED con_cls

(* Every call after the first one does the work.                           *)
CollectingNever == FALSE

(* send_page returns MHD_YES where it could not queue the reply.           *)
send_pageHides == {[yes |-> TRUE, queued |-> FALSE]}
------------------------------------------------------------------------------
(* libmicrohttpd.                                                          *)

(* The client sends the headers of a request.                              *)
Request ==
    /\ state = "waiting" /\ requests < MaxRequests
    /\ state' = "headers"
    /\ method' \in Methods /\ total' \in 0 .. MaxPieces /\ left' = total'
    /\ requests' = requests + 1 /\ works' = {}
    /\ UNCHANGED <<con_cls, infos>>

Called == state \in {"headers", "upload", "footers"}

(* *upload_data_size is not 0.                                             *)
HasData == state = "upload"

(* What happens after the handler has returned, with or without a reply.   *)
Proceed(yes, queued) ==
    /\ left' = IF HasData THEN left - 1 ELSE left
    /\ state' = IF ~ yes THEN "failed"
                ELSE IF queued THEN "reply"
                ELSE IF left' > 0 THEN "upload" ELSE "footers"

(* The client has read the reply.                                          *)
Sent ==
    /\ state = "reply"
    /\ state' = "sent"
    /\ UNCHANGED <<input, left, con_cls, infos, requests, works>>

(* The connection breaks, or the client closes it.                         *)
Break ==
    /\ state \notin {"sent", "failed", "closed"}
    /\ state' = IF state \in {"waiting", "headers"} THEN "closed" ELSE "failed"
    /\ UNCHANGED <<input, left, con_cls, infos, requests, works>>
------------------------------------------------------------------------------
(* callback_request_to_connect.                                            *)

(* The first call of a request.                                            *)
Incoming ==
    /\ Called /\ con_cls = NULL
    /\ LET new == [type |-> method, body |-> 0,
                   request |-> requests, deleted |-> FALSE]
       IN  /\ infos' = Append(infos, new)
           /\ con_cls' = IF method = "other" THEN NULL ELSE Len(infos) + 1
    /\ Proceed(method # "other", FALSE)
    /\ UNCHANGED <<input, requests, works>>

Collecting == infos[con_cls].type \in Uploads /\ HasData

(* con_info->body += upload_data: a piece is counted here, not its bytes,   *)
(* of which the code takes those before the first zero byte.               *)
Collect ==
    /\ Called /\ con_cls # NULL /\ Collecting
    /\ infos' = [infos EXCEPT ![con_cls].body = @ + 1]
    /\ Proceed(TRUE, FALSE)
    /\ UNCHANGED <<input, con_cls, requests, works>>

(* What send_page returns: MHD_queue_response takes a reply when it has    *)
(* the headers only or the whole request, and may fail then, too.          *)
send_page ==
    {[yes |-> FALSE, queued |-> FALSE]}
    \cup (IF HasData THEN {} ELSE {[yes |-> TRUE, queued |-> TRUE]})

(* Work_function: StartWork and the reply, whatever StartWork returns.     *)
Work ==
    /\ Called /\ con_cls # NULL /\ ~ Collecting
    /\ works' = works \cup {[no |-> IF works = {} THEN 1 ELSE 2, body |-> infos[con_cls].body]}
    /\ \E result \in send_page : Proceed(result.yes, result.queued)
    /\ UNCHANGED <<input, con_cls, infos, requests>>
------------------------------------------------------------------------------
(* callback_request_completed.                                             *)
CleanUp ==
    /\ infos' = IF con_cls = NULL THEN infos
                ELSE [infos EXCEPT ![con_cls].deleted = TRUE]
    /\ con_cls' = NULL

Completed ==
    /\ state \in {"sent", "failed"}
    /\ state' \in IF state = "sent" THEN {"waiting", "closed"} ELSE {"closed"}
    /\ CleanUp
    /\ UNCHANGED <<input, left, requests, works>>

Handler == Incoming \/ Work
Next == Request \/ Sent \/ Break \/ Handler \/ Collect \/ Completed

Spec == Init /\ [][Next]_vars
------------------------------------------------------------------------------
(* The pointer, when it is not NULL, is that of a live object made for     *)
(* this very request, and the objects of earlier requests are gone, except *)
(* for those made for a method that is not known.                          *)
OwnInfo ==
    /\ con_cls # NULL => con_cls \in Live /\ infos[con_cls].request = requests
                         /\ infos[con_cls].type = method
    /\ \A i \in Live : i = con_cls \/ infos[i].type = "other"

(* The work of a request is done at most once, and that of an upload only  *)
(* when the whole body is there.                                           *)
WorkOnce ==
    /\ \A w \in works : w.no = 1
    /\ method \in Uploads => \A w \in works : w.body = total
==============================================================================

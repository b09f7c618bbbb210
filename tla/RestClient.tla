------------------------------ MODULE RestClient ------------------------------
(***************************************************************************)
(* RestClient::get, post, put and del (RestClient.cpp): one transfer by    *)
(* libcurl, which calls back for the pieces of the data to send and for    *)
(* those of the reply.  Data are known by the positions of their bytes.    *)
(*                                                                         *)
(* get ignores a transfer that fails; the others end the process.          *)
(***************************************************************************)
EXTENDS Naturals, Sequences

CONSTANTS
    Sizes,      \* sizes of the data a put sends
    Replies,    \* sizes of the replies
    Buffers     \* sizes of the buffer libcurl passes to read_callback

ASSUME TransferAssumption ==
    /\ Sizes \subseteq Nat /\ Replies \subseteq Nat
    /\ Buffers \subseteq Nat \ {0}

VARIABLES
    method,     \* the function that was called
    pc,         \* what it is doing
    size,       \* data.size()
    data,       \* up_obj.data: the position of the next byte to send
    length,     \* up_obj.length
    uploaded,   \* what libcurl has taken
    asking,     \* libcurl may ask for more
    reply,      \* the size of the reply
    status,     \* the reply's status has come
    body,       \* ret.body
    code        \* ret.code

upload == <<data, length, uploaded, asking>>
vars   == <<method, pc, size, upload, reply, status, body, code>>

Codes == {"unset", "0", "status"}   \* never assigned, no reply, a reply's

TypeOK ==
    /\ method \in {"get", "post", "put", "del"}
    /\ pc \in {"init", "perform", "returned", "exited"}
    /\ size \in Sizes
    /\ data \in 1 .. size + 1 /\ length \in 0 .. size
    /\ uploaded \in Seq(1 .. size) /\ asking \in BOOLEAN
    /\ reply \in Replies /\ status \in BOOLEAN
    /\ body \in Seq(1 .. reply)
    /\ code \in Codes

Init ==
    /\ method \in {"get", "post", "put", "del"}
    /\ pc = "init"
    /\ size \in Sizes /\ data = 1 /\ length = size
    /\ uploaded = <<>> /\ asking = (method = "put")
    /\ reply \in Replies /\ status = FALSE
    /\ body = <<>> /\ code = "unset"

Positions(from, n) == [i \in 1 .. n |-> from + i - 1]
Min2(a, b) == IF a < b THEN a ELSE b

(* Faulty variants of the actions below; no specification uses them.       *)

(* read_callback forgets to move on in the data.                           *)
read_callbackKeepsData(n) ==
    /\ pc = "perform" /\ asking
    /\ LET copy_size == Min2(length, n)
       IN  /\ uploaded' = uploaded \o Positions(data, copy_size)
           /\ length' = length - copy_size
           /\ asking' = (copy_size > 0)
    /\ UNCHANGED <<method, pc, size, data, reply, status, body, code>>

(* post, put and del go on after a failed transfer as get does.            *)
FailGoesOn ==
    /\ pc = "perform"
    /\ pc' = "returned" /\ code' = IF status THEN "status" ELSE "0"
    /\ UNCHANGED <<method, size, upload, reply, status, body>>

(* curl_easy_init.                                                         *)
NoHandle ==
    /\ pc = "init"
    /\ pc' = "returned"
    /\ UNCHANGED <<method, size, upload, reply, status, body, code>>

Handle ==
    /\ pc = "init"
    /\ pc' = "perform"
    /\ UNCHANGED <<method, size, upload, reply, status, body, code>>

(* libcurl has room for n bytes.  It stops asking when it gets none.       *)
read_callback(n) ==
    /\ pc = "perform" /\ asking
    /\ LET copy_size == Min2(length, n)
       IN  /\ uploaded' = uploaded \o Positions(data, copy_size)
           /\ data' = data + copy_size /\ length' = length - copy_size
           /\ asking' = (copy_size > 0)
    /\ UNCHANGED <<method, pc, size, reply, status, body, code>>

(* The status line of the reply arrives, once the request is complete or   *)
(* because the server does not want the rest of it.                        *)
Status ==
    /\ pc = "perform" /\ ~ status
    /\ status' = TRUE
    /\ asking' = FALSE
    /\ UNCHANGED <<method, pc, size, data, length, uploaded, reply, body, code>>

(* The next n bytes of the reply.                                          *)
write_callback(n) ==
    /\ pc = "perform" /\ status /\ Len(body) + n <= reply
    /\ body' = body \o Positions(Len(body) + 1, n)
    /\ UNCHANGED <<method, pc, size, upload, reply, status, code>>

(* curl_easy_perform returns 0: the whole reply has come.                  *)
Succeed ==
    /\ pc = "perform" /\ status /\ Len(body) = reply
    /\ pc' = "returned" /\ code' = "status"
    /\ UNCHANGED <<method, size, upload, reply, status, body>>

(* It returns an error.                                                    *)
Fail ==
    /\ pc = "perform"
    /\ IF method = "get"
       THEN pc' = "returned" /\ code' = IF status THEN "status" ELSE "0"
       ELSE pc' = "exited" /\ UNCHANGED code
    /\ UNCHANGED <<method, size, upload, reply, status, body>>

Next ==
    \/ NoHandle \/ Handle
    \/ \E n \in Buffers : read_callback(n) \/ write_callback(n)
    \/ Status \/ Succeed \/ Fail

Spec == Init /\ [][Next]_vars
------------------------------------------------------------------------------
(* What put has sent is the beginning of its data, whatever the buffers,   *)
(* and all of it once read_callback has returned 0.                        *)
UploadExact ==
    /\ TypeOK
    /\ uploaded = Positions(1, Len(uploaded))
    /\ method = "put" /\ ~ asking /\ ~ status => Len(uploaded) = size

(* Only get returns with part of a reply, or without one, and calls it an  *)
(* answer: a caller that sees a code other than 0 after a get may have a   *)
(* document that ends early, after the others never.                       *)
WholeReply ==
    pc = "returned" /\ code # "unset" /\ method # "get" =>
        code = "status" /\ body = Positions(1, reply)
==============================================================================

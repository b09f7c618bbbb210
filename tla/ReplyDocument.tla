----------------------------- MODULE ReplyDocument -----------------------------
(***************************************************************************)
(* A transfer (RestClient) and, after a get, the document that its caller  *)
(* parses from the reply and works on (JsonDocument), as main does with    *)
(* the metadata.  It does not look at the code of the reply: what get      *)
(* returned is parsed, whole or not, with a zero byte put behind it.       *)
(***************************************************************************)
EXTENDS RestClient

CONSTANTS Keys, Subkeys, Texts, MaxItems        \* those of JsonDocument
VARIABLES m_root, aborted, last, created        \* those of JsonDocument

Doc == INSTANCE JsonDocument

(* What is parsed are documents, with null members or without.             *)
ASSUME TextsAssumption ==
    /\ MaxItems \in Nat
    /\ \A text \in Texts : Doc!IsDocument(text)

document == <<m_root, aborted, last, created>>
all      == <<vars, document>>

ReplyInit == Init /\ Doc!Init

Transfer == Next /\ UNCHANGED document

Whole == Len(body) = reply /\ reply > 0

(* InitData and ReadParse.  A whole reply is one of Texts; the beginning   *)
(* of one ends before, in or behind any of its members.                    *)
Parse(text) ==
    /\ last.op = "Init"
    /\ Doc!ReadParse(text)
    /\ Whole => m_root' = text
    /\ body = << >> => m_root' = Doc!Root("null", Doc!Empty)

Use == \E k \in Keys : Doc!Read(k) \/ Doc!Write(k)

Caller ==
    /\ method = "get" /\ pc = "returned"
    /\ Use \/ \E text \in Texts : Parse(text)
    /\ UNCHANGED vars

ReplyNext == Transfer \/ Caller

ReplySpec == ReplyInit /\ [][ReplyNext]_all
------------------------------------------------------------------------------
(* JsonDocument: a call changes no member that it does not name.           *)
LeavesOthers == Doc!LeavesOthers

(* JsonDocument: null members of members come from the reply, from its     *)
(* early end and from reads as bool, and from nothing else.                *)
NullOrigin == Doc!NullOrigin
==============================================================================

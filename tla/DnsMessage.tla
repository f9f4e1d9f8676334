----------------------------- MODULE DnsMessage -----------------------------
(***************************************************************************)
(* The messages of NetwokDesign/coroutine/async_dns_client_noblock.c: the  *)
(* request that it builds and its reading of a response.  A message is a   *)
(* sequence of bytes, and so is a name in dotted form.  The 1024 bytes of  *)
(* a receive buffer and the 128 of a name are enough for every message.    *)
(***************************************************************************)
EXTENDS Integers, Sequences, SequencesExt

DNS_HOST == 1
DNS_CNAME == 5
Dot == 46
Junk == 77      \* what malloc leaves in a byte

(* The buffer is zeroed before a message is received. *)
ByteAt(m, p) == IF p < Len(m) THEN m[p + 1] ELSE 0
ShortAt(m, p) == 256 * ByteAt(m, p) + ByteAt(m, p + 1)

(* id, then flags 0x0100, one question and no records. *)
dns_create_header(id) == id \o <<1, 0, 0, 1, 0, 0, 0, 0, 0, 0>>

(* What strtok cuts a name into: it has no empty labels. *)
Labels(hostname) ==
    LET cut == FoldLeft(LAMBDA ls, ch : IF ch = Dot THEN Append(ls, <<>>)
                                        ELSE [ls EXCEPT ![Len(ls)] = Append(@, ch)],
                        <<<<>>>>, hostname)
    IN  SelectSeq(cut, LAMBDA l : l # <<>>)

(* Mutant: no room is left for the zero at the end. *)
dns_create_question_short(hostname) ==
    LET labels == Labels(hostname)
        name == FlattenSeq([i \in 1..Len(labels) |-> <<Len(labels[i])>> \o labels[i]])
        length == Len(hostname) + 1
    IN  SubSeq(name \o (IF labels = <<>> THEN <<>> ELSE <<0>>) \o [i \in 1..length |-> Junk],
               1, length)

(* qname: each label behind its length, and the zero that strncpy copies   *)
(* with the last one, in a block of strlen(hostname) + 2 bytes.            *)
dns_create_question(hostname) ==
    LET labels == Labels(hostname)
        name == FlattenSeq([i \in 1..Len(labels) |-> <<Len(labels[i])>> \o labels[i]])
        length == Len(hostname) + 2
    IN  SubSeq(name \o (IF labels = <<>> THEN <<>> ELSE <<0>>) \o [i \in 1..length |-> Junk],
               1, length)

(* qtype and qclass are both 1. *)
dns_build_request(header, qname) == header \o qname \o <<0, 1>> \o <<0, 1>>
-----------------------------------------------------------------------------
is_pointer(in) == in \div 64 = 3

(* The name at offset p, after what out already holds.  Of a pointer only  *)
(* the second byte counts.                                                 *)
RECURSIVE dns_parse_name(_, _, _)
dns_parse_name(chunk, p, out) ==
    LET flag == ByteAt(chunk, p)
        next == p + 1 + flag
    IN  IF flag = 0 THEN out
        ELSE IF is_pointer(flag) THEN dns_parse_name(chunk, ByteAt(chunk, p + 1), out)
        ELSE dns_parse_name(chunk, next,
               out \o SubSeq(chunk, p + 2, next) \o IF ByteAt(chunk, next) # 0 THEN <<Dot>> ELSE <<>>)

(* The offset behind the name of a question, which has no pointers. *)
RECURSIVE SkipName(_, _)
SkipName(m, p) ==
    LET flag == ByteAt(m, p) IN IF flag = 0 THEN p + 1 ELSE SkipName(m, p + 1 + flag)

RECURSIVE SkipQuestions(_, _, _)
SkipQuestions(m, p, querys) ==
    IF querys = 0 THEN p ELSE SkipQuestions(m, SkipName(m, p) + 4, querys - 1)

(* Mutant: only the data of an address is skipped. *)
NextAnswerHost(p, type, datalen) == p + 12 + IF type = DNS_HOST THEN datalen ELSE 0

(* The next answer: a name of two bytes, type, class, ttl and the length   *)
(* of the data, which are skipped for the two types it knows.              *)
NextAnswer(p, type, datalen) ==
    p + 12 + IF type \in {DNS_HOST, DNS_CNAME} THEN datalen ELSE 0

(* The loop over the answers: every address of four bytes is an item. *)
RECURSIVE ParseAnswers(_, _, _, _)
ParseAnswers(m, p, answers, list) ==
    LET type == ShortAt(m, p + 2)
        datalen == ShortAt(m, p + 10)
        item == [domain |-> dns_parse_name(m, p, <<>>), ip |-> SubSeq(m, p + 13, p + 12 + datalen)]
    IN  IF answers = 0 THEN list
        ELSE ParseAnswers(m, NextAnswer(p, type, datalen), answers - 1,
                          IF type = DNS_HOST /\ datalen = 4 THEN Append(list, item) ELSE list)

dns_parse_response(m) ==
    ParseAnswers(m, SkipQuestions(m, 12, ShortAt(m, 4)), ShortAt(m, 6), <<>>)
=============================================================================

---------------------------- MODULE MCAlgorithms ----------------------------
(* The pure algorithms against reference definitions: an initial state is an *)
(* input, and one step computes what the code returns for it; for Dijkstra   *)
(* and the string searches the steps are those of their loops.               *)
EXTENDS MCDijkstra, CycleSearch, StringMatch, DnsMessage

CONSTANTS
    NumVertices,            \* check_dead_lock: all graphs of this size without
                            \* self-edges (verify_edge keeps those out)
    Chars, MaxText, MaxPattern, \* the searches: all strings up to these lengths
    MaxName, MaxAnswers     \* DNS: the lengths of a name and of the list of answers

VARIABLES input, result

inputvars == <<input, result>>

MCChars == {-1, 1, 2}  \* one negative char, two that are not
V == 1..NumVertices
Strings(set, n) == UNION {[1..k -> set] : k \in 0..n}
MCTexts == Strings(Chars, MaxText)
MCPatterns == Strings(Chars, MaxPattern)

WaitGraphs ==
    {[v \in V |-> SetToSortSeq(succ[v], <)] :
        succ \in {s \in [V -> SUBSET V] : \A v \in V : v \notin s[v]}}

(* Host names of the letters a and b, and answers: an address, or an alias *)
(* whose name is b, or b before the name asked for.                        *)
HostNames == Strings({97, 98, Dot}, MaxName)
AnswerKinds == {"address", "alias", "subalias"}

None == <<>>    \* no result yet

Input ==
    \/ \E g \in WaitGraphs : input = [kind |-> "waits", graph |-> g]
    \/ \E h \in HostNames, a \in Strings(AnswerKinds, MaxAnswers) :
         input = [kind |-> "dns", host |-> h, answers |-> a]

(* The graph of the other inputs: Dijkstra does not run on it. *)
NoEdges == [u \in Vertices |-> [v \in Vertices |-> NoEdge]]

(* The searches of the other inputs: there is nothing to search in. *)
NoText == text = <<>> /\ pattern = <<>> /\ algo = "bf" /\ Called

AlgorithmsInit ==
    /\ DijkstraInit /\ result = None
    /\ \/ input = [kind |-> "paths"] /\ NoText
       \/ graph = NoEdges /\ Input /\ NoText
       \/ graph = NoEdges /\ input = [kind |-> "strings"] /\ SearchInit
-----------------------------------------------------------------------------
(* Reference: what a name server answers, and the items in it.  Owners are *)
(* pointers: to the question, or to the data of the last alias.            *)
Record(r, type, data) ==
    <<192, r.owner, 0, type, 0, 1, 0, 0, 0, 60, 0, Len(data)>> \o data

AddAnswer(host, r, kind) ==
    IF kind = "address"
      THEN LET ip == <<10, 0, 0, Len(r.items)>> IN
           [r EXCEPT !.bytes = @ \o Record(r, DNS_HOST, ip),
                     !.items = Append(@, [domain |-> r.name, ip |-> ip])]
      ELSE LET data == IF kind = "alias" THEN <<1, 98, 0>> ELSE <<1, 98, 192, 12>> IN
           [r EXCEPT !.bytes = @ \o Record(r, DNS_CNAME, data),
                     !.owner = Len(r.bytes) + 12,
                     !.name = IF kind = "alias" THEN <<98>> ELSE <<98, Dot>> \o host]

Response(host, request, answers) ==
    FoldLeft(LAMBDA r, kind : AddAnswer(host, r, kind),
             [bytes |-> [request EXCEPT ![8] = Len(answers)], owner |-> 12, name |-> host, items |-> <<>>],
             answers)
-----------------------------------------------------------------------------
Request(host) == dns_build_request(dns_create_header(<<3, 4>>), dns_create_question(host))

CheckWaits ==
    /\ input.kind = "waits"
    /\ result' = <<CheckDeadLock(input.graph)>>

Resolve ==
    /\ input.kind = "dns" /\ Labels(input.host) # <<>>
    /\ LET request == Request(input.host)
           response == Response(input.host, request, input.answers)
       IN  result' = <<dns_parse_name(request, 12, <<>>), SkipQuestions(request, 12, 1) - Len(request),
                       dns_parse_response(response.bytes), response.items>>

AlgorithmsNext ==
    \/ /\ result = None
       /\ CheckWaits \/ Resolve
       /\ UNCHANGED <<dijkstravars, searchvars, input>>
    \/ input.kind = "paths" /\ DijkstraNext /\ UNCHANGED <<searchvars, inputvars>>
    \/ input.kind = "strings" /\ SearchNext /\ UNCHANGED <<dijkstravars, inputvars>>

AlgorithmsSpec == AlgorithmsInit /\ [][AlgorithmsNext]_<<dijkstravars, searchvars, inputvars>>
Is(kind) == input.kind = kind /\ result # None
-----------------------------------------------------------------------------
(* check_dead_lock misses no cycle, whatever vertex it is reached from,    *)
(* and invents none where threads wait for one lock at most.               *)
CyclesFound == Is("waits") => RightAnswer(input.graph, result[1])

(* A name as users write it: labels with one dot between them. *)
WellFormed(host) ==
    /\ host # <<>> /\ host[1] # Dot /\ Last(host) # Dot
    /\ \A i \in 1..(Len(host) - 1) : host[i] # Dot \/ host[i + 1] # Dot

(* The question says what was asked: the name in a request reads as the    *)
(* one the caller gave, and type and class follow it up to the end.  (With *)
(* more dots than labels the block is longer than the name, and junk       *)
(* follows it.)                                                            *)
QuestionReadsBack ==
    (Is("dns") /\ WellFormed(input.host)) => result[1] = input.host /\ result[2] = 0

(* dns_parse_response returns the addresses of a response, in order and    *)
(* with their names, through aliases and compressed names.                 *)
AddressesFound ==
    (Is("dns") /\ WellFormed(input.host)) => result[3] = result[4]
=============================================================================

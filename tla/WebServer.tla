------------------------------ MODULE WebServer ------------------------------
(***************************************************************************)
(* NetwokDesign/multi-io/webserver.c beside mycode/reactor/reactor.c.  The *)
(* two programs share the shape of their epoll loop, of accept_cb and of   *)
(* send_cb, so the web server acts on the variables of EchoReactor.  Its   *)
(* recv_cb differs: every successful recv is answered by one fixed page,   *)
(* whatever was asked, and rlen is never reset.                            *)
(***************************************************************************)
EXTENDS EchoReactor

(* The page that http_response prints into wbuffer. *)
Page == <<"page", 0>>
http_response == <<Page>>

WebInit == Init
WebEpollWait == EpollWait
WebSetEvent(fd, event) == interest' = [interest EXCEPT ![fd] = event]

(* Mutant: the item of a reused descriptor keeps its rlen. *)
WebAcceptCbStale ==
    /\ alive /\ <<Listener, "in">> \in events /\ backlog # <<>> /\ FreeFds # {}
    /\ events' = events \ {<<Listener, "in">>}
    /\ Accept
    /\ interest' = [interest EXCEPT ![ClientFd] = "in"]
    /\ UNCHANGED <<net, rbuffer, wbuffer, alive>>

WebAcceptCb == AcceptCb
WebAcceptFails == AcceptFails

(* recv_cb with data: the bytes are appended to rbuffer and stay there. *)
WebRecvCb(fd) ==
    /\ alive /\ <<fd, "in">> \in events /\ RecvData(fd)
    /\ events' = events \ {<<fd, "in">>}
    /\ LET c == conn[fd]
       IN  /\ rbuffer' = [rbuffer EXCEPT ![fd] = @ \o Received(c, Count(fd))]
           /\ Consume(c, Count(fd))
    /\ wbuffer' = [wbuffer EXCEPT ![fd] = http_response]
    /\ WebSetEvent(fd, "out")
    /\ UNCHANGED <<peer, sent, sk_err, out, backlog, conn, alive>>

(* recv_cb when recv returns 0, at the end of the stream or because the    *)
(* buffer has no room left.                                                *)
WebDisconnect(fd) == Disconnect(fd)

(* recv_cb when recv returns -1: the page is prepared all the same.  (rlen *)
(* loses one, which nothing reads again: the send that follows fails.)     *)
WebRecvFails(fd) ==
    /\ alive /\ <<fd, "in">> \in events /\ RecvError(fd)
    /\ events' = events \ {<<fd, "in">>}
    /\ sk_err' = sk_err \ {conn[fd]}
    /\ wbuffer' = [wbuffer EXCEPT ![fd] = http_response]
    /\ WebSetEvent(fd, "out")
    /\ UNCHANGED <<peer, sent, inq, out, backlog, conn, rbuffer, alive>>

WebSendCb(fd) == SendCb(fd)
WebSendFails(fd) == SendFails(fd)

WebStep == \/ WebEpollWait \/ WebAcceptCb \/ WebAcceptFails
           \/ \E fd \in Fds : \/ WebRecvCb(fd) \/ WebDisconnect(fd) \/ WebRecvFails(fd)
                              \/ WebSendCb(fd) \/ WebSendFails(fd)
=============================================================================

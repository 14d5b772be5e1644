-------------------------- MODULE MCHandshakeBytes --------------------------
(***************************************************************************)
(* What arrives in the handshake, octet by octet: a greeting, or the body  *)
(* of a command.  Bodies from nothing, after each of the names, and after  *)
(* a property that is not the socket type; octet 15 stands for a size      *)
(* beyond every body.                                                      *)
(***************************************************************************)
EXTENDS CommandsSpec, GreetingBytes

BytesInit == Init /\ GreetingInit

BytesNext ==
    \/ Next /\ GreetingInit /\ UNCHANGED greetingVars
    \/ GreetingNext /\ body = <<>> /\ UNCHANGED vars

BytesSpec == BytesInit /\ [][BytesNext]_<<vars, greetingVars>>

MCOctets == {0, 1, 2, 15}

MCBeginnings == {
    <<>>,
    Named(READY),
    Named(READY) \o Prop(<<>>, <<>>),
    Named(READY) \o Prop(<<15>>, <<1>>),
    Named(HELLO)
}
=============================================================================

------------------------- MODULE MC_ProtocolReader -------------------------
(* Small instances of ProtocolReader: a byte has two bits, an identifier   *)
(* two bytes, so that frames end inside a byte and identifiers arrive in   *)
(* two pieces.                                                             *)
EXTENDS ProtocolReader

CONSTANTS a, b

MCSockets == {a, b}

Frame(type, id, seq, bits) ==
  [type |-> type, id |-> id, seq |-> seq, bits |-> bits, first |-> 1]

EmptyMessage == Frame("message", "ping", 0, 4)
Request == Frame("request", "sum", 5, 5)
Response == Frame("response", "sumResponse", 0, 8)
Unknown == Frame("unknown", "other", 0, 4)
Corrupt == Frame("corrupt", "text", 0, 6)

FirstFrames == {EmptyMessage, Request, Response, Unknown, Corrupt}
Behind(f, g) == [g EXCEPT !.first = After(f)]

MCFrames == FirstFrames \cup {Behind(f, g) : f, g \in FirstFrames}

\* What is delivered of a stream may be any of its prefixes, so that shorter
\* streams need no sequence of their own; what follows a frame that closes
\* the socket is only there to be left unread.
MCStreams ==
  {<<f, Behind(f, g)>> :
     <<f, g>> \in ({Request} \X {Request, Response, Corrupt})
                \cup ({Response} \X {Request, Response})
                \cup {<<EmptyMessage, Request>>}
                \cup {<<f, EmptyMessage>> : f \in {Unknown, Corrupt}}}
=============================================================================

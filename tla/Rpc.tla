-------------------------------- MODULE Rpc ---------------------------------
(***************************************************************************)
(* How a call to another program is written to a stream and read from it   *)
(* (rpc::call).  A stream is the sequence of its lines, a line that of its *)
(* characters.  A call is the sequence of its parameters, the name of the  *)
(* function first; what it returns is written and read in the same way     *)
(* (get_return_value and get_return_param beside get_param).               *)
(***************************************************************************)
EXTENDS Naturals, Sequences, SequencesExt

Digits == <<"0", "1", "2", "3", "4", "5", "6", "7", "8", "9">>
Numeral(n) == <<Digits[n + 1]>>
Number(line) == (CHOOSE n \in 1 .. 10 : <<Digits[n]>> = line) - 1

(* add_param: the value and the end of its line.  A vector has one line    *)
(* with its size and one for each element (container_os), so that the end  *)
(* of its line is an empty one.                                            *)
Written(p) ==
    CASE p.type = "string" -> <<p.is>>
      [] p.type = "number" -> <<Numeral(p.is)>>
      [] p.type = "vector" -> <<Numeral(Len(p.is))>> \o p.is \o <<<<>>>>

WriteCall(ps) == FlattenSeq([n \in DOMAIN ps |-> Written(ps[n])])

(* Each read returns what it is and the rest of the stream: getline, >> of *)
(* a number with the rest of its line, container_is.                       *)
GetLine(i) == [is |-> i[1], rest |-> Tail(i)]

GetNumber(i) ==
    LET n == SelectInSeq(i, LAMBDA line : line # <<>>)
    IN  [is |-> Number(i[n]), rest |-> SubSeq(i, n + 1, Len(i))]

GetVector(i) ==
    LET size == GetNumber(i)
    IN  [is |-> SubSeq(size.rest, 1, size.is),
         rest |-> SubSeq(size.rest, size.is + 1, Len(size.rest))]

(* get_param: a string is one line, of anything else the line is finished. *)
GetParam(i, type) ==
    CASE type = "string" -> GetLine(i)
      [] type = "number" -> GetNumber(i)
      [] type = "vector" -> [GetVector(i) EXCEPT !.rest = Tail(@)]

(* The called function knows the types of its parameters.                  *)
ReadCall(i, types) ==
    LET from[n \in 1 .. Len(types)] ==
            IF n = 1 THEN i ELSE GetParam(from[n - 1], types[n - 1]).rest
    IN  [n \in 1 .. Len(types) |->
            [type |-> types[n], is |-> GetParam(from[n], types[n]).is]]
=============================================================================

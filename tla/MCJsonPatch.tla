---------------------------- MODULE MCJsonPatch ----------------------------
(* CJsonUtils for TLC, the patches applied to the document they were        *)
(* generated from: three documents of numbers, in and out of order.         *)
EXTENDS CJsonUtils

MCNodes == 1 .. 20
MCFold(name) == name
Number == [kind |-> "number", val |-> 1, kids |-> <<>>]
Object(kids) == [kind |-> "object", val |-> 0, kids |-> kids]
a == <<97>>
b == <<98>>
c == <<99>>
MCDocuments ==
  {Number, Object(<<<<b, Number>>, <<a, Number>>>>),
   Object(<<<<a, Number>>, <<b, Number>>, <<c, Number>>>>)}
=============================================================================

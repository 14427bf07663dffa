---------------------------- MODULE MCChunking ----------------------------
(***************************************************************************)
(* Small documents for the chunker.                                        *)
(***************************************************************************)
EXTENDS Chunking, TLC

CONSTANT Longest

Symmetry == Permutations(Places)

(* The shapes of a paragraph: shorter than the minimum, between, and too   *)
(* long, with sentences that fit, a long sentence, words, a long word.     *)
Shapes ==
  {<<<<1>>>>, <<<<2>>>>, <<<<4>>>>, <<<<5>>>>, <<<<2>>, <<3>>, <<1>>, <<2>>>>,
   <<<<2>>, <<8, 4, 3>>>>, <<<<3, 2, 3>>>>, <<<<1, 9>>>>}

MCTexts ==
  {LaidOut(document) : document \in
     UNION {[1 .. n -> [place : Places, sentences : Shapes]] : n \in 1 .. Longest}}
=============================================================================

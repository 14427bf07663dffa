--------------------------- MODULE FileValidation ---------------------------
(***************************************************************************)
(* What is checked of a file before its text is read: the local file, and   *)
(* the archive that a DOCX file is.  Of a file its faults are known, and   *)
(* the members of its archive.                                             *)
(***************************************************************************)
EXTENDS Integers, Sequences, SequencesExt, FiniteSets

CONSTANTS
  MaxMembers, MaxMember, MaxExpanded, MaxRatio   \* the limits of an archive

ASSUME ArchiveLimits == {MaxMembers, MaxMember, MaxExpanded, MaxRatio} \subseteq Nat \ {0}

(* The checks of a name, of the file, and of the first bytes of it against *)
(* its type, each with its error.                                          *)
NameChecks ==
  << <<"unsafe name", "UnsafeFileError">>, <<"unknown type", "UnsupportedFileTypeError">> >>

ContentChecks ==
  << <<"signature", "UnsupportedFileTypeError">>, <<"binary", "UnsafeFileError">> >>

(* validate_local_file makes them in this order. *)
Checks ==
  NameChecks
    \o << <<"missing", "FileNotFoundError">>, <<"outside", "UnsafeFileError">>,
          <<"not regular", "UnsafeFileError">>, <<"empty", "EmptyDocumentError">>,
          <<"large", "FileTooLargeError">> >>
    \o ContentChecks

(* The checks that fail, by their places in the order. *)
Rejections(faults) == {k \in DOMAIN Checks : Checks[k][1] \in faults}

IsValid(faults) == Rejections(faults) = {}

(* The first check that fails decides. *)
Rejection(faults) == Checks[Min(Rejections(faults))][2]

-----------------------------------------------------------------------------
(* A member of an archive, with the sizes that its entry declares and the  *)
(* size that is read in the end.                                           *)
Members ==
  [name : STRING, safe : BOOLEAN, kind : {"file", "directory", "special"},
   encrypted : BOOLEAN, size : Nat, packed : Nat, real : Nat, declares : BOOLEAN]

Sum(members, Of(_)) == FoldSeq(LAMBDA member, sum : sum + Of(member), 0, members)

IsInflated(size, packed) == size > MaxRatio * (IF packed > 1 THEN packed ELSE 1)

MemberIsSafe(member) ==
  /\ member.safe /\ ~member.encrypted /\ member.kind # "special"
  /\ member.size <= MaxMember
  /\ ~IsInflated(member.size, member.packed)

(* The parts that are read, in pieces: the entry may have lied. *)
PartIsRead(member) == member.real <= MaxMember /\ ~member.declares

ArchiveIsSafe(members) ==
  /\ Len(members) <= MaxMembers
  /\ \A i, j \in DOMAIN members : members[i].name = members[j].name => i = j
  /\ \A i \in DOMAIN members : MemberIsSafe(members[i])
  /\ Sum(members, LAMBDA member : member.size) <= MaxExpanded
  /\ ~IsInflated(Sum(members, LAMBDA member : member.size), Sum(members, LAMBDA member : member.packed))
  /\ \E i \in DOMAIN members : members[i].name = "document" /\ members[i].kind # "directory"
  /\ \A i \in DOMAIN members : members[i].name \in {"document", "styles"} => PartIsRead(members[i])
=============================================================================

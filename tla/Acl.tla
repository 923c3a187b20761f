-------------------------------- MODULE Acl --------------------------------
(***************************************************************************)
(* POSIX ACLs (internal/aclxattr/aclxattr.go and the ACL part of           *)
(* metadata_linux.go): text entries are resolved against the mode of the   *)
(* file, completed by a mask, put into canonical order and encoded; the    *)
(* kernel keeps the result, and a reader decodes and formats it.           *)
(*                                                                         *)
(* Abstractions.  Permissions are sets, a mode is the three of them.  An   *)
(* ACL is a function from keys (tag and qualifier) to permissions, and its *)
(* encoding the sequence of its records in canonical order.  The text of   *)
(* an entry is what it says, or malformed.                                 *)
(***************************************************************************)
EXTENDS Integers, Sequences, FiniteSets

Undefined == -1     \* UndefinedID
Key(tag, id) == <<tag, id>>

UserObj  == Key("user_obj", Undefined)
GroupObj == Key("group_obj", Undefined)
MaskKey  == Key("mask", Undefined)
OtherKey == Key("other", Undefined)

Named(key) == key[1] \in {"user", "group"}

(* AccessEntriesFromMode *)
FromMode(mode) ==
  [k \in {UserObj, GroupObj, OtherKey} |->
     CASE k = UserObj -> mode.u [] k = GroupObj -> mode.g [] OTHER -> mode.o]

-----------------------------------------------------------------------------
(* resolveACLEntries *)

(* The places of the entries for the access (FALSE) or the default ACL. *)
For(raw, default) == {i \in DOMAIN raw : raw[i].default = default}

(* A later entry for the same key takes the place of an earlier one. *)
Overridden(mode, raw, default) ==
  LET base == FromMode(mode)
      At(k) == {i \in For(raw, default) : raw[i].key = k}
  IN  [k \in DOMAIN base \cup {raw[i].key : i \in For(raw, default)} |->
         IF At(k) = {} THEN base[k]
         ELSE raw[CHOOSE i \in At(k) : \A j \in At(k) : j <= i].perm]

(* Mutant: the owning group does not count. *)
deriveNamedMask(acl) ==
  UNION {acl[k] : k \in {x \in DOMAIN acl : Named(x)}}

deriveACLMask(acl) ==
  UNION {acl[k] : k \in {x \in DOMAIN acl : Named(x) \/ x = GroupObj}}

(* canonicalizeACLEntries, but for the order *)
Masked(acl) ==
  IF MaskKey \notin DOMAIN acl /\ \E k \in DOMAIN acl : Named(k)
  THEN [k \in DOMAIN acl \cup {MaskKey} |-> IF k = MaskKey THEN deriveACLMask(acl) ELSE acl[k]]
  ELSE acl

(* Validate.  A function has no duplicates, and a mode gives the base. *)
Validate(acl) ==
  /\ {UserObj, GroupObj, OtherKey} \subseteq DOMAIN acl
  /\ \A k \in DOMAIN acl : Named(k) <=> k[2] # Undefined
  /\ (\E k \in DOMAIN acl : Named(k)) => MaskKey \in DOMAIN acl

Resolve(mode, raw, default) == Masked(Overridden(mode, raw, default))

HasDefault(raw) == For(raw, TRUE) # {}

(* Every entry parses and both lists make a valid ACL. *)
Resolves(mode, raw) ==
  raw # <<>> =>
    /\ \A i \in DOMAIN raw : raw[i].wellFormed
    /\ Validate(Resolve(mode, raw, FALSE))
    /\ HasDefault(raw) => Validate(Resolve(mode, raw, TRUE))

-----------------------------------------------------------------------------
(* Encoding *)

Ranks == <<"user_obj", "user", "group_obj", "group", "mask", "other">>
tagSortRank(tag) == CHOOSE n \in DOMAIN Ranks : Ranks[n] = tag

(* SortEntries: by tag and qualifier *)
Before(a, b) ==
  \/ tagSortRank(a[1][1]) < tagSortRank(b[1][1])
  \/ a[1][1] = b[1][1] /\ a[1][2] < b[1][2]

(* The record at place i has i - 1 records before it. *)
Marshal(acl) ==
  LET records == {<<k, acl[k]>> : k \in DOMAIN acl}
      Rank(r) == Cardinality({q \in records : Before(q, r)})
  IN  [i \in 1 .. Cardinality(records) |-> CHOOSE r \in records : Rank(r) = i - 1]

(* What the tags and the qualifiers of keys can be. *)
IsKey(k) ==
  /\ k = Key(k[1], k[2])
  /\ \E n \in DOMAIN Ranks : k[1] = Ranks[n]
  /\ k[2] \in Int

(* A list of records in canonical order *)
IsCanonical(records) ==
  /\ records = [i \in 1 .. Len(records) |-> <<records[i][1], records[i][2]>>]
  /\ Len(records) \in Nat
  /\ \A i \in DOMAIN records : IsKey(records[i][1])
  /\ \A i, j \in DOMAIN records : i < j => Before(records[i], records[j])

(* Parse, for what Marshal made *)
Parse(records) ==
  [k \in {records[i][1] : i \in DOMAIN records} |->
     records[CHOOSE i \in DOMAIN records : records[i][1] = k][2]]

(* FormatTextEntries: the texts are sorted, so they compare as a set. *)
Format(access, defaults) ==
  {<<FALSE, access[i]>> : i \in DOMAIN access}
  \cup {<<TRUE, defaults[i]>> : i \in DOMAIN defaults}

-----------------------------------------------------------------------------
(* The kernel *)

(* Only the three base entries: the mode says it all and no ACL is kept. *)
Minimal(acl) == DOMAIN acl = {UserObj, GroupObj, OtherKey}

(* setxattr of the access ACL keeps it and makes the mode follow. *)
ModeOf(acl) ==
  [u |-> acl[UserObj], g |-> IF Minimal(acl) THEN acl[GroupObj] ELSE acl[MaskKey],
   o |-> acl[OtherKey]]
Kept(records) == IF Minimal(Parse(records)) THEN <<>> ELSE records

(* getxattr and Parse; without an ACL the mode is the ACL. *)
InForce(mode, records) == IF records = <<>> THEN FromMode(mode) ELSE Parse(records)

=============================================================================

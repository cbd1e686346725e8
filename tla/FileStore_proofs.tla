-------------------------- MODULE FileStore_proofs --------------------------
(***************************************************************************)
(* Theorems about the file store, for any number of clients, codes and     *)
(* contents, any interleaving and any failure.                             *)
(***************************************************************************)
EXTENDS FileStore, TLAPS

\* A client past its first step works on a code; a put, on a content; and its
\* metadata comes after its bytes.
AtWork ==
    \A p \in Clients :
       /\ step[p] # "idle" => code[p] \in Codes
       /\ step[p] \in Putting \cup {"unindex"} => content[p] \in Contents
       /\ step[p] = "meta" => objects[code[p]] # NoContent

Base == TypeOK /\ AtWork /\ MetaHasBytes

-----------------------------------------------------------------------------
\* Nothing is stored at first.
LEMMA BaseInit == Init => Base
  BY ConstantsAssumption DEF Init, Base, TypeOK, AtWork, MetaHasBytes, Putting, Deleting

\* Bytes are never deleted, so a step that keeps or stores them keeps Base.
LEMMA BaseStep ==
    ASSUME Base, [Next]_vars
    PROVE  Base'
  <1> USE ConstantsAssumption
      DEF Base, TypeOK, AtWork, MetaHasBytes, Putting, Deleting, Go
  <1>1. ASSUME NEW p \in Clients, Put(p) PROVE Base'
    BY <1>1 DEF Put
  <1>2. ASSUME NEW p \in Clients, PutBytes(p) PROVE Base'
    BY <1>2 DEF PutBytes, ObjectPutPersistent
  <1>3. ASSUME NEW p \in Clients, PutMeta(p) PROVE Base'
    BY <1>3 DEF PutMeta
  <1>4. ASSUME NEW p \in Clients, PutIndex(p) PROVE Base'
    BY <1>4 DEF PutIndex
  <1>5. ASSUME NEW p \in Clients, Delete(p) PROVE Base'
    BY <1>5 DEF Delete
  <1>6. ASSUME NEW p \in Clients, DeleteStat(p) PROVE Base'
    BY <1>6 DEF DeleteStat, Stat
  <1>7. ASSUME NEW p \in Clients, DeleteIndex(p) PROVE Base'
    BY <1>7 DEF DeleteIndex
  <1>8. ASSUME NEW p \in Clients, DeleteMeta(p) PROVE Base'
    BY <1>8 DEF DeleteMeta
  <1>9. ASSUME NEW p \in Clients, Get(p) PROVE Base'
    BY <1>9 DEF Get, ObjectGetPersistent
  <1>10. ASSUME NEW p \in Clients, GetStat(p) PROVE Base'
    BY <1>10 DEF GetStat
  <1>11. ASSUME NEW p \in Clients, Fail(p) PROVE Base'
    BY <1>11 DEF Fail
  <1>12. ASSUME UNCHANGED vars PROVE Base'
    BY <1>12 DEF vars
  <1> QED
    BY <1>1, <1>2, <1>3, <1>4, <1>5, <1>6, <1>7, <1>8, <1>9, <1>10, <1>11, <1>12 DEF Next

\* Base holds in every state of the specification.
LEMMA BaseAlways == Spec => []Base
  BY BaseInit, BaseStep, PTL DEF Spec

\* Type correctness of the file store.
THEOREM FilesTypeCorrect == Spec => []TypeOK
  BY BaseAlways, PTL DEF Base

\* Metadata is never seen before its bytes, whatever the uses, the interleaving
\* and the failures.
THEOREM MetaHasBytesHolds == Spec => []MetaHasBytes
  BY BaseAlways, PTL DEF Base

-----------------------------------------------------------------------------
\* No put and delete of one code are under way, nor two puts of different
\* contents, nor a put over an indexed content.
KeptApart ==
    \A p \in Clients : step[p] \in Putting =>
       /\ \A q \in Clients :
             /\ step[q] \in Deleting => code[p] # code[q]
             /\ step[q] \in Putting /\ code[p] = code[q] => content[p] = content[q]
       /\ \A h \in Contents : index[h] = code[p] => content[p] = h

\* A put indexes what is stored; a delete knows what is stored, and deletes the
\* metadata of a code that is no longer in the index.
InOrder ==
    \A p \in Clients :
       /\ step[p] \in {"meta", "index"} => objects[code[p]] = content[p]
       /\ step[p] = "index" => meta[code[p]] = content[p]
       /\ step[p] = "unindex" => meta[code[p]] \in {content[p], NoContent}
       /\ step[p] = "unmeta" => \A h \in Contents : index[h] # code[p]

\* What the index leads to.
Followed ==
    \A h \in Contents : \A c \in Codes :
       index[h] = c => meta[c] = h /\ objects[c] = h

Careful == KeptApart /\ InOrder /\ Followed

Sound == Base /\ (careless \/ Careful)

\* Nothing is indexed at first.
LEMMA SoundInit == Init => Sound
  BY BaseInit, ConstantsAssumption
     DEF Init, Sound, Careful, KeptApart, InOrder, Followed, Putting, Deleting

\* Careful, broken down by the steps that matter to it.  A put that begins:
LEMMA CarefulPut ==
    ASSUME Base, Careful, NEW p \in Clients, Put(p), ~careless'
    PROVE  Careful'
  <1>1. PICK c \in Codes, h \in Contents :
           /\ code' = [code EXCEPT ![p] = c] /\ content' = [content EXCEPT ![p] = h]
           /\ ~PutConflicts(c, h)
    BY DEF Put
  <1>2. step' = [step EXCEPT ![p] = "bytes"] /\ UNCHANGED <<objects, meta, index>>
    BY DEF Put, Go
  <1> USE DEF Base, TypeOK, AtWork, Careful
  <1>3. /\ \A q \in Clients : code[q] = c => step[q] \notin Deleting
        /\ \A q \in Clients : code[q] = c /\ step[q] \in Putting => content[q] = h
        /\ \A g \in Contents : index[g] = c => g = h
    BY <1>1 DEF PutConflicts, Busy
  <1>4. KeptApart'
    BY <1>1, <1>2, <1>3 DEF KeptApart, Putting, Deleting
  <1>5. InOrder' /\ Followed'
    BY <1>1, <1>2 DEF InOrder, Followed
  <1> QED
    BY <1>4, <1>5

\* The three requests of a put.
LEMMA CarefulPutting ==
    ASSUME Base, Careful, NEW p \in Clients, PutBytes(p) \/ PutMeta(p) \/ PutIndex(p)
    PROVE  Careful'
  <1> USE DEF Base, TypeOK, AtWork, Careful, Go
  <1>1. code[p] \in Codes /\ content[p] \in Contents /\ step[p] \in Putting
    BY DEF PutBytes, PutMeta, PutIndex, Putting
  <1>2. /\ \A q \in Clients : step[q] \in Putting /\ code[q] = code[p] => content[q] = content[p]
        /\ \A q \in Clients : step[q] \in Deleting => code[q] # code[p]
        /\ \A h \in Contents : index[h] = code[p] => content[p] = h
    BY <1>1 DEF KeptApart
  <1>3. CASE PutBytes(p)
    <2>1. /\ step[p] = "bytes" /\ step' = [step EXCEPT ![p] = "meta"]
          /\ objects' = [objects EXCEPT ![code[p]] = content[p]]
          /\ UNCHANGED <<meta, index, code, content>>
      BY <1>3 DEF PutBytes, ObjectPutPersistent
    <2>2. KeptApart'
      BY <2>1 DEF KeptApart, Putting, Deleting
    <2>3. Followed'
      BY <1>1, <1>2, <2>1 DEF Followed
    <2>4. InOrder'
      BY <1>1, <1>2, <2>1 DEF InOrder, Putting
    <2> QED
      BY <2>2, <2>3, <2>4
  <1>4. CASE PutMeta(p)
    <2>1. /\ step[p] = "meta" /\ step' = [step EXCEPT ![p] = "index"]
          /\ meta' = [meta EXCEPT ![code[p]] = content[p]]
          /\ UNCHANGED <<objects, index, code, content>>
      BY <1>4 DEF PutMeta
    <2>2. KeptApart'
      BY <2>1 DEF KeptApart, Putting, Deleting
    <2>3. Followed'
      BY <1>1, <1>2, <2>1 DEF Followed
    <2>4. InOrder'
      BY <1>1, <1>2, <2>1 DEF InOrder, Putting, Deleting
    <2> QED
      BY <2>2, <2>3, <2>4
  <1>5. CASE PutIndex(p)
    <2>1. /\ step[p] = "index" /\ step' = [step EXCEPT ![p] = "idle"]
          /\ \/ index' = [index EXCEPT ![content[p]] = code[p]]
             \/ UNCHANGED index
          /\ UNCHANGED <<objects, meta, code, content>>
      BY <1>5 DEF PutIndex
    <2>2. KeptApart'
      BY <1>1, <1>2, <2>1 DEF KeptApart, Putting, Deleting
    <2>3. Followed'
      BY <1>1, <2>1 DEF Followed, InOrder
    <2>4. InOrder'
      BY <1>1, <1>2, <2>1 DEF InOrder, Deleting
    <2> QED
      BY <2>2, <2>3, <2>4
  <1> QED
    BY <1>3, <1>4, <1>5

\* A delete that begins, and its requests: it finds no metadata only for a code
\* that is not in the index, and deletes the only entry that the code can have.
LEMMA CarefulDeleting ==
    ASSUME Base, Careful, NEW p \in Clients, ~careless',
           Delete(p) \/ DeleteStat(p) \/ DeleteIndex(p) \/ DeleteMeta(p)
    PROVE  Careful'
  <1> USE DEF Base, TypeOK, AtWork, Careful, Go
  <1>1. CASE Delete(p)
    <2>1. PICK c \in Codes :
             /\ code' = [code EXCEPT ![p] = c]
             /\ \A q \in Clients : code[q] = c => step[q] \notin Putting
      BY <1>1 DEF Delete, Busy
    <2>2. step' = [step EXCEPT ![p] = "stat"] /\ UNCHANGED <<objects, meta, index, content>>
      BY <1>1 DEF Delete
    <2>3. KeptApart'
      BY <2>1, <2>2 DEF KeptApart, Putting, Deleting
    <2>4. InOrder' /\ Followed'
      BY <2>1, <2>2 DEF InOrder, Followed
    <2> QED
      BY <2>3, <2>4
  <1>2. CASE DeleteStat(p)
    <2>1. /\ step[p] = "stat" /\ UNCHANGED <<objects, meta, index, code>>
          /\ content' = [content EXCEPT ![p] = meta[code[p]]]
          /\ \/ step' = [step EXCEPT ![p] = "unmeta"] /\ meta[code[p]] = NoContent
             \/ step' = [step EXCEPT ![p] = "unindex"] /\ meta[code[p]] # NoContent
      BY <1>2 DEF DeleteStat
    <2>2. code[p] \in Codes
      BY <2>1
    <2>3. KeptApart'
      BY <2>1 DEF KeptApart, Putting, Deleting
    <2>4. meta[code[p]] = NoContent => \A h \in Contents : index[h] # code[p]
      BY <2>2, ConstantsAssumption DEF Followed
    <2>5. InOrder' /\ Followed'
      BY <2>1, <2>4 DEF InOrder, Followed
    <2> QED
      BY <2>3, <2>5
  <1>3. CASE DeleteIndex(p)
    <2>1. /\ step[p] = "unindex" /\ step' = [step EXCEPT ![p] = "unmeta"]
          /\ index' = [index EXCEPT ![content[p]] = NoCode]
          /\ UNCHANGED <<objects, meta, code, content>>
      BY <1>3 DEF DeleteIndex
    <2>2. code[p] \in Codes /\ content[p] \in Contents
      BY <2>1
    <2>3. \A h \in Contents : index'[h] # code[p]
      BY <2>1, <2>2, ConstantsAssumption DEF InOrder, Followed
    <2>4. KeptApart'
      BY <2>1, <2>2, ConstantsAssumption DEF KeptApart, Putting, Deleting
    <2>5. Followed'
      BY <2>1, <2>2, ConstantsAssumption DEF Followed
    <2>6. InOrder'
      BY <2>1, <2>2, <2>3, ConstantsAssumption DEF InOrder
    <2> QED
      BY <2>4, <2>5, <2>6
  <1>4. CASE DeleteMeta(p)
    <2>1. /\ step[p] = "unmeta" /\ step' = [step EXCEPT ![p] = "idle"]
          /\ meta' = [meta EXCEPT ![code[p]] = NoContent]
          /\ UNCHANGED <<objects, index, code, content>>
      BY <1>4 DEF DeleteMeta
    <2>2. code[p] \in Codes /\ \A h \in Contents : index[h] # code[p]
      BY <2>1 DEF InOrder
    <2>3. KeptApart'
      BY <2>1 DEF KeptApart, Putting, Deleting
    <2>4. Followed'
      BY <2>1, <2>2 DEF Followed
    <2>5. \A q \in Clients : step[q] = "index" => code[q] # code[p]
      BY <2>1 DEF KeptApart, Putting, Deleting
    <2>6. InOrder'
      BY <2>1, <2>2, <2>5 DEF InOrder
    <2> QED
      BY <2>3, <2>4, <2>6
  <1> QED
    BY <1>1, <1>2, <1>3, <1>4

\* The steps that write to no bucket.
LEMMA CarefulReading ==
    ASSUME Base, Careful, NEW p \in Clients, Get(p) \/ GetStat(p) \/ Fail(p)
    PROVE  Careful'
  <1> USE DEF Base, TypeOK, AtWork, Careful, Go
  <1>1. UNCHANGED <<objects, meta, index>>
    BY DEF Get, GetStat, Fail
  <1>2. step' = [step EXCEPT ![p] = "idle"] \/ step' = [step EXCEPT ![p] = "got"]
    BY DEF Get, GetStat, Fail
  <1>3. \A q \in Clients : q # p => code'[q] = code[q] /\ content'[q] = content[q]
    BY DEF Get, GetStat, Fail
  <1>4. KeptApart'
    BY <1>1, <1>2, <1>3 DEF KeptApart, Putting, Deleting
  <1>5. InOrder' /\ Followed'
    BY <1>1, <1>2, <1>3 DEF InOrder, Followed
  <1> QED
    BY <1>4, <1>5

\* Once careless, always careless; until then, every step is careful.
LEMMA SoundStep ==
    ASSUME Sound, [Next]_vars
    PROVE  Sound'
  <1>1. Base'
    BY BaseStep DEF Sound
  <1>2. careless => careless'
    BY DEF Next, vars, Put, PutBytes, PutMeta, PutIndex, Delete, DeleteStat,
           DeleteIndex, DeleteMeta, Get, GetStat, Fail
  <1>3. ASSUME ~careless' PROVE Careful'
    <2>1. Base /\ Careful
      BY <1>2, <1>3 DEF Sound
    <2>2. CASE UNCHANGED vars
      BY <2>1, <2>2 DEF vars, Careful, KeptApart, InOrder, Followed
    <2>3. CASE Next
      BY <1>3, <2>1, <2>3, CarefulPut, CarefulPutting, CarefulDeleting, CarefulReading
         DEF Next
    <2> QED
      BY <2>2, <2>3
  <1> QED
    BY <1>1, <1>3 DEF Sound

\* As long as callers keep puts and deletes of a code apart and never put another
\* content over an indexed one, the dedup index can be followed at any time,
\* wherever clients die.
THEOREM IndexIsSoundHolds == Spec => []IndexIsSound
  <1>1. Sound => IndexIsSound
    BY DEF Sound, Careful, Followed, IndexIsSound
  <1> QED
    BY <1>1, SoundInit, SoundStep, PTL DEF Spec
=============================================================================

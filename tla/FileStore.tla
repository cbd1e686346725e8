------------------------------ MODULE FileStore ------------------------------
(***************************************************************************)
(* The file store that agents and extensions share: Put, Get and Delete of *)
(* protocol/file.go over the durable object bucket and the metadata bucket *)
(* of transport/nats.                                                      *)
(*                                                                         *)
(* Every operation is a few requests to two buckets, with other clients in *)
(* between; a client that dies in the middle leaves the rest undone.  A    *)
(* content is the hash it has: the bytes stored under a code, the hash in  *)
(* the code's metadata and the key of the dedup index are all contents.    *)
(***************************************************************************)
CONSTANTS
    Clients,    \* holders of a FileStore, one operation at a time each
    Codes,
    Contents,   \* what a client may put under a code
    NoContent, NoCode,
    Faults      \* may requests fail and clients die?

ASSUME ConstantsAssumption ==
    /\ NoContent \notin Contents /\ NoCode \notin Codes
    /\ Faults \in BOOLEAN

VARIABLES
    objects,    \* the durable bucket: the content under a code
    meta,       \* f.<code>: the content that the metadata names
    index,      \* sha.<content>: a code
    step,       \* per client: the request it makes next
    code,       \* per client: the code it works on
    content,    \* per client: the content it puts, got, or found in the metadata
    careless    \* auxiliary: what IndexIsSound needs has been violated

vars == <<objects, meta, index, step, code, content, careless>>

Init ==
    /\ objects = [c \in Codes |-> NoContent]
    /\ meta = [c \in Codes |-> NoContent]
    /\ index = [h \in Contents |-> NoCode]
    /\ step = [p \in Clients |-> "idle"]
    /\ code = [p \in Clients |-> NoCode]
    /\ content = [p \in Clients |-> NoContent]
    /\ careless = FALSE

Go(p, s) == step' = [step EXCEPT ![p] = s]

Putting == {"bytes", "meta", "index"}
Deleting == {"stat", "unindex", "unmeta"}

\* What the dedup index needs of its callers, and the code does not enforce: no
\* Put and Delete of one code overlap, no Puts of different contents under one
\* code do, and no content is put over another that is in the index.
Busy(c, steps) == {q \in Clients : code[q] = c /\ step[q] \in steps}
PutConflicts(c, h) ==
    \/ Busy(c, Deleting) # {}
    \/ \E q \in Busy(c, Putting) : content[q] # h
    \/ \E g \in Contents \ {h} : index[g] = c

-----------------------------------------------------------------------------
(* The buckets.                                                            *)

ObjectPutPersistent(c, h) == objects' = [objects EXCEPT ![c] = h]

\* No bytes are an error, or nothing at all if there is no bucket or it cannot be
\* opened.
ObjectGetPersistent(c) ==
    {h \in Contents : objects[c] = h}
      \cup {h \in {NoContent} : Faults \/ \A d \in Codes : objects[d] = NoContent}

\* KVGet takes every failure for a missing key.
Stat(c) == {meta[c]} \cup {h \in {NoContent} : Faults}

-----------------------------------------------------------------------------
(* Put: the bytes, the metadata, the index.                                *)

\* Mutant: the bytes are not stored first.
PutMetaFirst(p) ==
    /\ step[p] = "idle"
    /\ \E c \in Codes, h \in Contents :
          /\ code' = [code EXCEPT ![p] = c]
          /\ content' = [content EXCEPT ![p] = h]
          /\ careless' = (careless \/ PutConflicts(c, h))
    /\ Go(p, "meta")
    /\ UNCHANGED <<objects, meta, index>>
Put(p) ==
    /\ step[p] = "idle"
    /\ \E c \in Codes, h \in Contents :
          /\ code' = [code EXCEPT ![p] = c]
          /\ content' = [content EXCEPT ![p] = h]
          /\ careless' = (careless \/ PutConflicts(c, h))
    /\ Go(p, "bytes")
    /\ UNCHANGED <<objects, meta, index>>

PutBytes(p) ==
    /\ step[p] = "bytes"
    /\ ObjectPutPersistent(code[p], content[p])
    /\ Go(p, "meta")
    /\ UNCHANGED <<meta, index, code, content, careless>>

PutMeta(p) ==
    /\ step[p] = "meta"
    /\ meta' = [meta EXCEPT ![code[p]] = content[p]]
    /\ Go(p, "index")
    /\ UNCHANGED <<objects, index, code, content, careless>>

\* KVCreate leaves an entry that exists as it is; only when the bucket cannot be
\* opened, the entry is put over it.  Mutant: key and value are exchanged.
IndexExchanged(p) ==
    /\ step[p] = "index"
    /\ index' = [index EXCEPT ![content[p]] = content[p]]
    /\ Go(p, "idle")
    /\ UNCHANGED <<objects, meta, code, content, careless>>
PutIndex(p) ==
    /\ step[p] = "index"
    /\ \/ /\ index[content[p]] = NoCode \/ Faults
          /\ index' = [index EXCEPT ![content[p]] = code[p]]
       \/ /\ index[content[p]] # NoCode \/ Faults
          /\ UNCHANGED index
    /\ Go(p, "idle")
    /\ UNCHANGED <<objects, meta, code, content, careless>>

-----------------------------------------------------------------------------
(* Delete: read the metadata, delete its index entry, delete it.  The bytes *)
(* stay.                                                                    *)

Delete(p) ==
    /\ step[p] = "idle"
    /\ \E c \in Codes :
          /\ code' = [code EXCEPT ![p] = c]
          /\ careless' = (careless \/ Busy(c, Putting) # {})
    /\ Go(p, "stat")
    /\ UNCHANGED <<objects, meta, index, content>>

DeleteStat(p) ==
    /\ step[p] = "stat"
    /\ \E found \in Stat(code[p]) :
          /\ content' = [content EXCEPT ![p] = found]
          /\ Go(p, IF found = NoContent THEN "unmeta" ELSE "unindex")
          /\ careless' = (careless \/ found # meta[code[p]])
    /\ UNCHANGED <<objects, meta, index, code>>

\* The error of this one is ignored.  Mutant: the other order.
MetaDeletedFirst(p) ==
    /\ step[p] = "unindex"
    /\ meta' = [meta EXCEPT ![code[p]] = NoContent]
    /\ Go(p, "unmeta")
    /\ UNCHANGED <<objects, index, code, content, careless>>
DeleteIndex(p) ==
    /\ step[p] = "unindex"
    /\ \/ index' = [index EXCEPT ![content[p]] = NoCode] /\ UNCHANGED careless
       \/ Faults /\ careless' = TRUE /\ UNCHANGED index
    /\ Go(p, "unmeta")
    /\ UNCHANGED <<objects, meta, code, content>>

DeleteMeta(p) ==
    /\ step[p] = "unmeta"
    /\ meta' = [meta EXCEPT ![code[p]] = NoContent]
    /\ Go(p, "idle")
    /\ UNCHANGED <<objects, index, code, content, careless>>

-----------------------------------------------------------------------------
(* Get: the bytes, then the metadata; with a Put in between the two do not  *)
(* belong together.                                                         *)

Get(p) ==
    /\ step[p] = "idle"
    /\ \E c \in Codes : \E data \in ObjectGetPersistent(c) :
          /\ code' = [code EXCEPT ![p] = c]
          /\ content' = [content EXCEPT ![p] = data]
    /\ Go(p, "got")
    /\ UNCHANGED <<objects, meta, index, careless>>

GetStat(p) ==
    /\ step[p] = "got"
    /\ Go(p, "idle")
    /\ UNCHANGED <<objects, meta, index, code, content, careless>>

\* A request fails and the operation returns its error, or the client dies.
Fail(p) ==
    /\ Faults /\ step[p] # "idle"
    /\ Go(p, "idle")
    /\ UNCHANGED <<objects, meta, index, code, content, careless>>

Next ==
    \E p \in Clients :
       \/ Put(p) \/ PutBytes(p) \/ PutMeta(p) \/ PutIndex(p)
       \/ Delete(p) \/ DeleteStat(p) \/ DeleteIndex(p) \/ DeleteMeta(p)
       \/ Get(p) \/ GetStat(p) \/ Fail(p)

Spec == Init /\ [][Next]_vars

-----------------------------------------------------------------------------
(* Properties.                                                             *)

\* Every variable has its type.
TypeOK ==
    /\ objects \in [Codes -> Contents \cup {NoContent}]
    /\ meta \in [Codes -> Contents \cup {NoContent}]
    /\ index \in [Contents -> Codes \cup {NoCode}]
    /\ step \in [Clients -> {"idle", "got"} \cup Putting \cup Deleting]
    /\ code \in [Clients -> Codes \cup {NoCode}]
    /\ content \in [Clients -> Contents \cup {NoContent}]
    /\ careless \in BOOLEAN

\* Whoever finds metadata finds bytes, under any interleaving and any failure.
MetaHasBytes == \A c \in Codes : meta[c] # NoContent => objects[c] # NoContent

\* The dedup index can be followed: it leads to metadata, and to bytes, of the
\* content it was asked for, wherever clients die and as long as none has been
\* careless, every deletion of an entry has arrived and every Delete could read
\* its metadata.
IndexIsSound ==
    ~careless =>
       \A h \in Contents : \A c \in Codes :
          index[h] = c => meta[c] = h /\ objects[c] = h
=============================================================================

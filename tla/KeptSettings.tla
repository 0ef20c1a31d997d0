---------------------------- MODULE KeptSettings ----------------------------
(***************************************************************************)
(* The settings that the device keeps in its flash and the simulator for   *)
(* as long as its process: nvs.h, with handles onto namespaces, and        *)
(* Preferences.h, an object per namespace.  A key in the store is a        *)
(* namespace with a name; a handle that is not open is an empty one.       *)
(***************************************************************************)
EXTENDS Naturals, Sequences, SequencesExt, Functions

NoSettings == [store |-> <<>>, open |-> <<>>, next |-> 1]
NameOf(kept, h) == IF h \in DOMAIN kept.open THEN kept.open[h] ELSE ""
Key(kept, h, name) == <<NameOf(kept, h), name>>
With(f, x, y) == [z \in DOMAIN f \cup {x} |-> IF z = x THEN y ELSE f[z]]

NvsOpen(kept, namespace) ==
  [kept EXCEPT !.open = With(@, kept.next, namespace), !.next = @ + 1]
Looks(kept, h) ==  \* namespaces()[h] makes an entry where there is none
  [kept EXCEPT !.open = With(@, h, NameOf(kept, h))]
NvsSetBlob(kept, h, name, data) ==
  [Looks(kept, h) EXCEPT !.store = With(@, Key(kept, h, name), data)]
NvsClose(kept, h) == [kept EXCEPT !.open = Restrict(@, DOMAIN @ \ {h})]

(***************************************************************************)
(* A blob comes cut to the size of the buffer, and its size whole.         *)
(***************************************************************************)
NotFound == [found |-> FALSE, data |-> <<>>, len |-> 0]
NvsGetBlob(kept, h, name, size) ==
  LET key == Key(kept, h, name)
  IN IF key \notin DOMAIN kept.store THEN NotFound
     ELSE LET blob == kept.store[key]
          IN [found |-> TRUE, len |-> Len(blob),
              data |-> SubSeq(blob, 1, IF size < Len(blob) THEN size ELSE Len(blob))]
NvsGetU8(kept, h, name) ==
  LET got == NvsGetBlob(kept, h, name, 1) IN [ok |-> got.found /\ got.len = 1, value |-> got.data]
NvsSetU8(kept, h, name, value) == NvsSetBlob(kept, h, name, <<value>>)

(***************************************************************************)
(* Preferences: nothing is opened, begin() only takes the namespace.       *)
(***************************************************************************)
PutLong64(store, namespace, name, value) == With(store, <<namespace, name>>, value)
GetLong64(store, namespace, name, fallback) ==
  IF <<namespace, name>> \in DOMAIN store THEN store[<<namespace, name>>] ELSE fallback
=============================================================================

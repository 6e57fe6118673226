---------------------------- MODULE ContentBodies ---------------------------
(***************************************************************************)
(* Typed message bodies: src/content/body.rs and the typed half of         *)
(* src/content/mod.rs, with the kind and length checks of fill_slot and    *)
(* append_content.  The state is the content account of one slot; who may  *)
(* post or append, and when, is in Channel.                                *)
(*                                                                         *)
(* There are two types of body: TextBody, and the struct-shaped ImageBody  *)
(* that the documentation of body.rs gives as the example of a type added  *)
(* later.  An image has one scalar, of one byte.  A decoder gives the set  *)
(* of values it accepts: one, or none where the code returns an error.     *)
(***************************************************************************)
EXTENDS Integers, SequencesExt

CONSTANTS NULL, KIND_IMAGE, MAX_BODY_LEN,
          KindInputs,    \* kinds a client sends
          BodyInputs,    \* bodies and chunks a client sends
          ImageInputs,   \* images a client composes
          MaxChunks      \* bound of the appends to one message

ASSUME BodiesAssumption ==
    /\ KIND_IMAGE \in Nat \ {0}
    /\ MAX_BODY_LEN \in Nat /\ MaxChunks \in Nat
    /\ KindInputs \subseteq Nat
    /\ BodyInputs \subseteq Seq(0..255)
    /\ ImageInputs \subseteq [uri: Seq(0..255), width: 0..255]

VARIABLES node,      \* [kind, body] of the ContentNode, or NULL
          composed,  \* the image the message was posted as, or NULL
          pieces     \* the body posted and the chunks appended, in order

bodyVars == <<node, composed, pieces>>

-----------------------------------------------------------------------------
(* ContentKind *)

KIND_TEXT == 0

\* Mutant: a kind this build does not know is taken for text.
from_u16_lossy(value) == <<"Text">>

from_u16(value) == IF value = KIND_TEXT THEN <<"Text">> ELSE <<"Unknown", value>>
to_u16(kind)    == IF kind = <<"Text">> THEN KIND_TEXT ELSE kind[2]
is_known(kind)  == kind[1] # "Unknown"

-----------------------------------------------------------------------------
(* ContentBody for TextBody: the bytes themselves. *)

Text_to_body(text)   == text
Text_from_body(body) == {body}
Text_validate(text)  == Len(text) <= MAX_BODY_LEN

-----------------------------------------------------------------------------
(* ContentBody for a Borsh struct. *)

\* External: borsh writes the fields one after the other, a vector after its
\* length ...
to_vec(image) == <<Len(image.uri)>> \o image.uri \o <<image.width>>

\* ... and reads them back the same way.
read_image(b) == [uri |-> SubSeq(b, 2, b[1] + 1), width |-> b[b[1] + 2]]

\* Mutant: bytes after the last field are ignored.
try_from_slice_prefix(b) ==
    IF b = <<>> \/ Len(b) < b[1] + 2 THEN {} ELSE {read_image(b)}

\* External: try_from_slice refuses a slice that is too short and one with
\* bytes left over.
try_from_slice(b) == IF b = <<>> \/ Len(b) # b[1] + 2 THEN {} ELSE {read_image(b)}

\* Mutant: the vector is written without its length.
Image_to_body_unframed(image) == image.uri \o <<image.width>>

\* The trait's validate accepts every image.
Image_to_body(image)  == to_vec(image)
Image_from_body(body) == try_from_slice(body)

-----------------------------------------------------------------------------
(* ContentNode *)

content_kind(n) == from_u16(n.kind)

decode_text(n)  == IF n.kind # KIND_TEXT THEN {} ELSE Text_from_body(n.body)
decode_image(n) == IF n.kind # KIND_IMAGE THEN {} ELSE Image_from_body(n.body)

-----------------------------------------------------------------------------
(* The instructions. *)

Init ==
    /\ node = NULL
    /\ composed = NULL
    /\ pieces = <<>>

\* fill_slot on the free slot: only a kind it knows gets typed validation.
fill_slot(kind, body) ==
    /\ Len(body) <= MAX_BODY_LEN
    /\ from_u16(kind) = <<"Text">> => Text_validate(body)
    /\ node = NULL
    /\ node' = [kind |-> kind, body |-> body]
    /\ pieces' = <<body>>

PostRaw(kind, body) == fill_slot(kind, body) /\ composed' = NULL

\* ContentNode::from_body, sent with its kind.
PostImage(image) ==
    /\ fill_slot(KIND_IMAGE, Image_to_body(image))
    /\ composed' = image

\* append_content looks at neither the kind nor the type.
AppendChunk(chunk) ==
    /\ node # NULL
    /\ Len(pieces) <= MaxChunks
    /\ Len(node.body) + Len(chunk) <= MAX_BODY_LEN
    /\ node' = [node EXCEPT !.body = @ \o chunk]
    /\ pieces' = Append(pieces, chunk)
    /\ UNCHANGED composed

CloseNode ==
    /\ node # NULL
    /\ node' = NULL
    /\ composed' = NULL
    /\ pieces' = <<>>

Next ==
    \/ \E kind \in KindInputs, body \in BodyInputs : PostRaw(kind, body)
    \/ \E image \in ImageInputs : PostImage(image)
    \/ \E chunk \in BodyInputs : AppendChunk(chunk)
    \/ CloseNode

BodiesSpec == Init /\ [][Next]_bodyVars

-----------------------------------------------------------------------------
(* Properties. *)

\* Every body that decodes is the encoding of what it decodes to, kind
\* included: bytes appended behind a struct, or a struct of which a chunk is
\* still missing, are refused and never read as some other value
\* (ContentBody::from_body, ContentNode::decode_body).
DecodeCanonical ==
    node # NULL =>
        /\ \A image \in decode_image(node) :
             node = [kind |-> KIND_IMAGE, body |-> to_vec(image)]
        /\ \A text \in decode_text(node) :
             node = [kind |-> KIND_TEXT, body |-> Text_to_body(text)]

\* An image posted through ContentNode::from_body is what every reader
\* decodes, until its author appends to it (the program lets a struct be
\* appended to): from then on it decodes as nothing at all.
ImageIntactOrRefused ==
    composed # NULL =>
        decode_image(node) = IF \A i \in 2..Len(pieces) : pieces[i] = <<>>
                             THEN {composed} ELSE {}

\* A reader that dispatches on content_kind and one that tries decode_body
\* agree: a message is text exactly if its kind says so, however many kinds
\* this build does not know are around, and then it reads as its pieces in the
\* order they were accepted.
ReadersAgree ==
    node # NULL =>
        /\ to_u16(content_kind(node)) = node.kind
        /\ decode_text(node) = IF is_known(content_kind(node))
                               THEN {FlattenSeq(pieces)} ELSE {}
=============================================================================

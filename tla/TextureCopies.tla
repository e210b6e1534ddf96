--------------------------- MODULE TextureCopies ---------------------------
(***************************************************************************)
(* Copies between a buffer and a texture, and between two buffers.         *)
(*                                                                         *)
(* The application creates a texture, records one copy and asks for the    *)
(* command buffer.  The frontend fills in a default row pitch, validates   *)
(* the copy with 32 bit arithmetic, and a backend turns the copy into      *)
(* commands of its own API: one region on Vulkan, OpenGL and Metal, one or *)
(* two on D3D12, whose buffer side must start on a large alignment.  The   *)
(* GPU then runs these commands one by one.                                *)
(*                                                                         *)
(* What a command does is the set of pairs <<first byte, texel>> it moves  *)
(* (pairs of bytes for a copy between buffers), whatever the direction.    *)
(* Reference is the set the API promises; the backends are compared with   *)
(* it, which is what makes their offsets, pitches and units checkable.     *)
(*                                                                         *)
(* Scaled down: RowPitchAlignment stands for 256 bytes, twice that for the *)
(* 512 bytes of D3D12's placement alignment, Word for 2^32.  The formats   *)
(* are colour formats of 1 and 2 bytes per texel.                          *)
(***************************************************************************)
EXTENDS Integers, Sequences

CONSTANTS
    Backends,           \* a subset of {"Vulkan", "OpenGL", "D3D12", "Metal"}
    Word,               \* sizes are computed modulo Word
    RowPitchAlignment,  \* kTextureRowPitchAlignment
    Textures,           \* the texture descriptors the application may use
    BufferSize,         \* the size of every buffer
    Offsets,            \* the buffer offsets of a copy
    RowPitches,         \* the row pitches of a copy; 0 asks for the default
    Origins, Extents,   \* the coordinates and the sizes of a copy's region
    Careful             \* the application avoids the copies of Unfaithful

(* What is assumed of the constants.                                       *)
CopiesAssumption ==
    /\ Backends \subseteq {"Vulkan", "OpenGL", "D3D12", "Metal"}
    /\ Word \in Nat \ {0} /\ RowPitchAlignment \in Nat \ {0}
    /\ Careful \in BOOLEAN

VARIABLES
    texture,    \* the texture's descriptor, NoTexture before its creation
    copy,       \* the recorded copy, NoCopy before
    backend,    \* the backend that encodes the copy, "none" before
    status,     \* how far the copy went
    regions,    \* what the backend asked of its API and is not yet executed
    moved       \* the pairs the GPU has moved

vars == <<texture, copy, backend, status, regions, moved>>

NoTexture == [none |-> TRUE]
NoCopy == [kind |-> "none"]

PlacementAlignment == 2 * RowPitchAlignment

-----------------------------------------------------------------------------
(* Textures.  A descriptor is a record of width, height, arrayLayer,       *)
(* mipLevel and of the texel size of its format.                           *)

TextureFormatPixelSize(t) == t.texel

\* Only empty textures are refused: nothing relates the number of levels to
\* the size.
ValidateTextureDescriptor(t) ==
    0 \notin {t.width, t.height, t.arrayLayer, t.mipLevel}

\* w >> level.
Shifted(w, level) == w \div 2^level

\* The size of a level in each of the APIs.
LevelSize(w, level) == IF Shifted(w, level) = 0 THEN 1 ELSE Shifted(w, level)

Texels(t) ==
    {x \in [slice : 0..(t.arrayLayer - 1), level : 0..(t.mipLevel - 1),
            x : 0..(t.width - 1), y : 0..(t.height - 1)] :
        x.x < LevelSize(t.width, x.level) /\ x.y < LevelSize(t.height, x.level)}

-----------------------------------------------------------------------------
(* Recording and validation in the frontend.                               *)

TextureCopyCmds ==
    [kind : {"CopyBufferToTexture", "CopyTextureToBuffer"},
     offset : Offsets, rowPitch : RowPitches,
     x : Origins, y : Origins, width : Extents, height : Extents,
     depth : {0, 1}, level : {0, 1}, slice : {0, 1}]

BufferCopyCmds ==
    [kind : {"CopyBufferToBuffer"},
     source : Offsets, destination : Offsets, size : Extents]

ComputeDefaultRowPitch(t, width) == (TextureFormatPixelSize(t) * width) % Word

WithRowPitch(t, c) ==
    IF c.rowPitch = 0
    THEN [c EXCEPT !.rowPitch = ComputeDefaultRowPitch(t, c.width)]
    ELSE c

ValidateRowPitch(t, c) ==
    /\ c.rowPitch % RowPitchAlignment = 0
    /\ c.rowPitch >= (c.width * TextureFormatPixelSize(t)) % Word

\* The width is added in texels although the pitches are in bytes, and
\* nothing checks for overflows.
ComputeTextureCopyBufferSize(c) ==
    ((c.rowPitch * (c.height - 1) + c.width) * c.depth) % Word

\* These additions are in 64 bits: they do not wrap.
ValidateCopyLocationFitsInTexture(t, c) ==
    /\ c.level < t.mipLevel
    /\ c.slice < t.arrayLayer
    /\ c.x + c.width <= Shifted(t.width, c.level)
    /\ c.y + c.height <= Shifted(t.height, c.level)
    /\ c.depth = 1

FitsInBuffer(offset, size) == offset <= BufferSize /\ size <= BufferSize - offset

ValidateTexelBufferOffset(t, c) == c.offset % TextureFormatPixelSize(t) = 0

ValidateTextureCopy(t, c) ==
    /\ ValidateRowPitch(t, c)
    /\ ValidateCopyLocationFitsInTexture(t, c)
    /\ FitsInBuffer(c.offset, ComputeTextureCopyBufferSize(c))
    /\ ValidateTexelBufferOffset(t, c)

ValidateBufferCopy(c) ==
    FitsInBuffer(c.source, c.size) /\ FitsInBuffer(c.destination, c.size)

Valid(t, c) == IF c.kind = "CopyBufferToBuffer" THEN ValidateBufferCopy(c)
               ELSE ValidateTextureCopy(t, c)

-----------------------------------------------------------------------------
(* What the APIs do with a command.                                        *)

\* A region of the texture against rows of a buffer that start at `first`
\* and are `pitch` bytes apart.
RowsAndTexels(t, r, first, pitch) ==
    {<<first + j * pitch + i * t.texel,
       [slice |-> r.slice, level |-> r.level, x |-> r.x + i, y |-> r.y + j]>> :
        i \in 0..(r.width - 1), j \in 0..(r.height - 1)}

BytesAndBytes(source, destination, size) ==
    {<<source + i, destination + i>> : i \in 0..(size - 1)}

\* The row lengths of Vulkan and of OpenGL are in texels; zero means that
\* the rows are packed.
RowBytes(t, r) == t.texel * (IF r.rowLength = 0 THEN r.width ELSE r.rowLength)

\* A box of a placed footprint of D3D12, which it must not leave; slices of
\* the footprint are as many rows apart as the footprint has.
FootprintAddress(t, r) ==
    r.base + r.bufferOffset.z * r.rowPitch * r.bufferSize.height
           + r.bufferOffset.y * r.rowPitch + r.bufferOffset.x * t.texel

InFootprint(t, r) ==
    /\ r.bufferOffset.x + r.width <= r.bufferSize.width
    /\ r.bufferOffset.y + r.height <= r.bufferSize.height
    /\ r.bufferOffset.z < r.bufferSize.depth
    /\ r.bufferSize.width * t.texel <= r.rowPitch
    /\ r.rowPitch % RowPitchAlignment = 0
    /\ r.base % PlacementAlignment = 0

Executed(t, r) ==
    CASE r.api = "bytes" -> BytesAndBytes(r.source, r.destination, r.size)
      [] r.api = "rows" -> RowsAndTexels(t, r, r.offset, RowBytes(t, r))
      [] r.api = "pitched" -> RowsAndTexels(t, r, r.offset, r.bytesPerRow)
      [] r.api = "placed" ->
            IF InFootprint(t, r)
            THEN RowsAndTexels(t, r, FootprintAddress(t, r), r.rowPitch) ELSE {}

-----------------------------------------------------------------------------
(* What each backend asks of its API.                                      *)

TextureSide(c) == [slice |-> c.slice, level |-> c.level, x |-> c.x, y |-> c.y,
                   width |-> c.width, height |-> c.height]

With(r, more) == [f \in DOMAIN r \cup DOMAIN more |->
                     IF f \in DOMAIN more THEN more[f] ELSE r[f]]

\* The image height is rowPitch * height, in bytes where Vulkan wants texels:
\* with one layer it is not used.
VulkanRegion(t, c) ==
    With(TextureSide(c),
         [api |-> "rows", offset |-> c.offset,
          rowLength |-> c.rowPitch \div TextureFormatPixelSize(t)])

\* Both directions set the row length and reset it after the copy.  A slice
\* is only named for a texture with several layers, whose target has them.
OpenGLRegion(t, c) ==
    With(TextureSide(c),
         [api |-> "rows", offset |-> c.offset,
          slice |-> IF t.arrayLayer > 1 THEN c.slice ELSE 0,
          rowLength |-> c.rowPitch \div TextureFormatPixelSize(t)])

MetalRegion(t, c) ==
    With(TextureSide(c),
         [api |-> "pitched", offset |-> c.offset, bytesPerRow |-> c.rowPitch])

\* The subresource D3D12 is given, and the one it names.
SubresourceIndex(t, c) == t.mipLevel * c.slice + c.level
SliceOf(t, s) == s \div t.mipLevel
LevelOf(t, s) == s % t.mipLevel

\* Fault: the column of the offset is left in bytes.
ComputeTexelOffsets_FaultBytes(offset, rowPitch, slicePitch, texelSize) ==
    LET rest == offset - (offset % rowPitch)
    IN  [x |-> offset % rowPitch, y |-> (rest % slicePitch) \div rowPitch,
         z |-> (rest - (rest % slicePitch)) \div slicePitch]

ComputeTexelOffsets(offset, rowPitch, slicePitch, texelSize) ==
    LET byteOffsetX == offset % rowPitch
        rest == offset - byteOffsetX
        byteOffsetY == rest % slicePitch
        byteOffsetZ == rest - byteOffsetY
    IN  [x |-> byteOffsetX \div texelSize, y |-> byteOffsetY \div rowPitch,
         z |-> byteOffsetZ \div slicePitch]

\* ComputeTextureCopySplit on one copy.  Each element moves `width` texels of
\* each row, the first from column 0 of the region, the second from where the
\* first one stopped at the end of the row pitch.
ComputeTextureCopySplit(t, c) ==
    LET texelSize == TextureFormatPixelSize(t)
        alignedOffset == c.offset - (c.offset % PlacementAlignment)
        texelOffset == ComputeTexelOffsets(c.offset - alignedOffset, c.rowPitch,
                                           c.rowPitch * c.height, texelSize)
        rowPitchInTexels == c.rowPitch \div texelSize
        firstWidth == rowPitchInTexels - texelOffset.x
        Part(column, width, bufferOffset, bufferWidth, bufferHeight) ==
            [column |-> column, width |-> width, base |-> alignedOffset,
             bufferOffset |-> bufferOffset,
             bufferSize |-> [width |-> bufferWidth, height |-> bufferHeight,
                             depth |-> 1 + bufferOffset.z]]
    IN  IF c.offset = alignedOffset
        THEN <<Part(0, c.width, [x |-> 0, y |-> 0, z |-> 0], c.width, c.height)>>
        ELSE IF c.width + texelOffset.x <= rowPitchInTexels
        THEN <<Part(0, c.width, texelOffset,
                    c.width + texelOffset.x, c.height + texelOffset.y)>>
        ELSE <<Part(0, firstWidth, texelOffset,
                    rowPitchInTexels, c.height + texelOffset.y),
               Part(firstWidth, c.width - firstWidth,
                    [texelOffset EXCEPT !.x = 0, !.y = @ + 1],
                    c.width - firstWidth, c.height + texelOffset.y + 1)>>

\* The remainders of ComputeTexelOffsets by a row pitch or a slice pitch of
\* zero; the early return for an aligned offset comes before them.
DividesByZero(c) ==
    c.offset % PlacementAlignment # 0 /\ c.rowPitch * c.height = 0

D3D12Regions(t, c) ==
    LET split == ComputeTextureCopySplit(t, c)
        s == SubresourceIndex(t, c)
    IN  [i \in DOMAIN split |->
            With(With(TextureSide(c), split[i]),
                 [api |-> "placed", rowPitch |-> c.rowPitch,
                  slice |-> SliceOf(t, s), level |-> LevelOf(t, s),
                  x |-> c.x + split[i].column])]

\* CopyBufferToBuffer is the same call on every backend.
BufferRegion(c) == [api |-> "bytes", source |-> c.source,
                    destination |-> c.destination, size |-> c.size]

RegionsOf(b, t, c) ==
    CASE c.kind = "CopyBufferToBuffer" -> <<BufferRegion(c)>>
      [] c.kind # "CopyBufferToBuffer" /\ b = "Vulkan" -> <<VulkanRegion(t, c)>>
      [] c.kind # "CopyBufferToBuffer" /\ b = "OpenGL" -> <<OpenGLRegion(t, c)>>
      [] c.kind # "CopyBufferToBuffer" /\ b = "Metal" -> <<MetalRegion(t, c)>>
      [] c.kind # "CopyBufferToBuffer" /\ b = "D3D12" -> D3D12Regions(t, c)

-----------------------------------------------------------------------------
(* The copies whose outcome differs from the API's promise (README,        *)
(* findings): empty ones, which Vulkan refuses and D3D12 divides by, and   *)
(* the split of a single row whose offset is past the first row pitch.     *)

SplitsPastARow(t, c) ==
    /\ c.height = 1 /\ c.offset % PlacementAlignment >= c.rowPitch
    /\ (c.offset % c.rowPitch) + c.width * t.texel > c.rowPitch

Unfaithful(t, c) ==
    /\ c.kind # "CopyBufferToBuffer"
    /\ \/ c.width = 0 \/ c.height = 0
       \/ SplitsPastARow(t, WithRowPitch(t, c))

-----------------------------------------------------------------------------
Init ==
    /\ texture = NoTexture /\ copy = NoCopy
    /\ backend = "none"
    /\ status = "start" /\ regions = <<>> /\ moved = {}

\* A texture with a bad descriptor is an error object: no copy uses it.
CreateTexture(t) ==
    /\ texture = NoTexture
    /\ texture' = IF ValidateTextureDescriptor(t) THEN t ELSE texture
    /\ UNCHANGED <<copy, backend, status, regions, moved>>

CanRecord == status = "start" /\ texture # NoTexture

\* CommandBufferBuilder::CopyBufferToTexture and CopyTextureToBuffer.
RecordTextureCopy(c) ==
    /\ CanRecord
    /\ Careful => ~Unfaithful(texture, c)
    /\ copy' = WithRowPitch(texture, c)
    /\ status' = "recorded"
    /\ UNCHANGED <<texture, backend, regions, moved>>

\* CommandBufferBuilder::CopyBufferToBuffer.
RecordBufferCopy(c) ==
    /\ CanRecord
    /\ copy' = c
    /\ status' = "recorded"
    /\ UNCHANGED <<texture, backend, regions, moved>>

\* ValidateGetResult: an invalid copy is an error and never reaches a backend.
Validate ==
    /\ status = "recorded"
    /\ status' = IF Valid(texture, copy) THEN "valid" ELSE "refused"
    /\ UNCHANGED <<texture, copy, backend, regions, moved>>

Divides(b) == /\ b = "D3D12" /\ copy.kind # "CopyBufferToBuffer"
              /\ DividesByZero(copy)

\* The backend of the device walks the command at submission; the frontend
\* is the same for all of them.
Encode(b) ==
    /\ status = "valid"
    /\ backend' = b
    /\ IF Divides(b) THEN status' = "crashed" /\ UNCHANGED regions
       ELSE /\ status' = "submitted"
            /\ regions' = RegionsOf(b, texture, copy)
    /\ UNCHANGED <<texture, copy, moved>>

\* The GPU executes the next command.
Execute ==
    /\ status = "submitted" /\ regions # <<>>
    /\ moved' = moved \cup Executed(texture, Head(regions))
    /\ regions' = Tail(regions)
    /\ UNCHANGED <<texture, copy, backend, status>>

\* The application starts over with another texture.
StartOver ==
    /\ status \in {"refused", "crashed"} \/ (status = "submitted" /\ regions = <<>>)
    /\ texture' = NoTexture /\ copy' = NoCopy
    /\ status' = "start" /\ regions' = <<>> /\ moved' = {}
    /\ backend' = "none"

Next ==
    \/ \E t \in Textures : CreateTexture(t)
    \/ CanRecord /\ \E c \in TextureCopyCmds : RecordTextureCopy(c)
    \/ CanRecord /\ \E c \in BufferCopyCmds : RecordBufferCopy(c)
    \/ Validate \/ (\E b \in Backends : Encode(b)) \/ Execute \/ StartOver

Spec == Init /\ [][Next]_vars

-----------------------------------------------------------------------------
(* Properties.                                                             *)

\* What a copy promises.
Reference ==
    IF copy.kind = "CopyBufferToBuffer"
    THEN BytesAndBytes(copy.source, copy.destination, copy.size)
    ELSE RowsAndTexels(texture, copy, copy.offset, copy.rowPitch)

Finished == status = "submitted" /\ regions = <<>>

\* Whatever its backend, a copy that was accepted has moved exactly the texels
\* of its region to and from the bytes its row pitch gives them, once all its
\* commands have run.
BackendsCopyTheSame ==
    /\ Finished => moved = Reference
    /\ status = "submitted" => moved \subseteq Reference

\* An accepted copy touches texels of the texture only, and bytes that are
\* beyond the end of the buffer by at most what adding the width in texels
\* forgets: none for one-byte texels.
StaysInBounds ==
    LET slack == IF copy.kind \in {"none", "CopyBufferToBuffer"} THEN 0
                 ELSE copy.width * (texture.texel - 1)
    IN  \A p \in moved :
            /\ p[1] < BufferSize + slack
            /\ IF copy.kind = "CopyBufferToBuffer" THEN p[2] < BufferSize
               ELSE p[2] \in Texels(texture)

=============================================================================

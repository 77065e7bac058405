-------------------------- MODULE MCLayerPackager --------------------------
EXTENDS LayerPackager

\* A JSON shorter than 256 bytes and one longer: the size field's bytes
\* differ in one and in two positions.
MCMetaSizes == {40, 300}
\* Two packs onto the same path, two stacked mounts.
MCMaxFileLen == 9
MCMaxMounts == 2
=============================================================================

-------------------------- MODULE MCFrontendObjects --------------------------
(* Six scenarios: bind groups of buffers with compute pipelines, pipeline  *)
(* layouts, render pipelines, render pass descriptors, bind groups of      *)
(* textures and samplers, and a swap chain.                                *)
EXTENDS FrontendObjects

Binding(b, type, stages) == [binding |-> b, type |-> type, visibility |-> stages]
Use(group, b, type) == [group |-> group, binding |-> b, type |-> type]
Module(stage, uses, attributes) ==
    [stage |-> stage, uses |-> uses, attributes |-> attributes]

(* One address for every kind, with what builders make and the defaults, *)
(* but two for some.                                                      *)
Pools(kinds, n) == {<<kind, i>> : kind \in kinds, i \in 1..n}

NoResources == [Buffer |-> {}, Texture |-> {}, Sampler |-> {}]
NoScenario == [ids |-> {}, handles |-> 4, layouts |-> {}, groups |-> 0, modules |-> {}, bindings |-> 1,
               resources |-> NoResources]

Uniform == Binding(0, "UniformBuffer", {"Compute"})
TextureAt(b) == [usage |-> {b}, size |-> 1, depthStencil |-> FALSE]

Groups ==
    [NoScenario EXCEPT
        !.ids = Pools({"PipelineLayout", "ShaderModule", "ComputePipeline", "Buffer",
                          "BufferViewBuilder", "BufferView", "BindGroupBuilder", "BindGroup"}, 1)
                    \cup Pools({"BindGroupLayout"}, 2),
        !.layouts = {<<Uniform>>, <<Uniform, Binding(1, "Sampler", {"Compute"})>>},
        !.groups = 1,
        !.modules = {Module("Compute", {Use(0, 0, "UniformBuffer"), Use(0, 2, "Sampler")}, {})},
        !.resources.Buffer = {[usage |-> {"UniformBuffer"}], [usage |-> {"StorageBuffer"}]}]

Layouts ==
    [NoScenario EXCEPT
        !.ids = Pools({"BindGroupLayout"}, 3) \cup Pools({"PipelineLayout"}, 1),
        !.layouts = {<<Uniform>>, <<Uniform, Binding(1, "Sampler", {"Fragment"})>>,
                     <<Binding(1, "Sampler", {"Fragment"}), Uniform>>, <<Uniform, Uniform>>,
                     <<Binding(2, "Sampler", {"Fragment"})>>},
        !.groups = 2]

Pipelines ==
    [NoScenario EXCEPT
        !.ids = Pools({"PipelineLayout", "InputStateBuilder", "InputState", "DepthStencilState",
                          "RenderPipelineBuilder", "RenderPipeline", "BlendStateBuilder",
                          "BlendState"}, 1)
                    \cup Pools({"ShaderModule"}, 2),
        !.handles = 3,
        !.modules = {Module("Vertex", {}, {0}), Module("Fragment", {}, {})}]

Passes ==
    [NoScenario EXCEPT
        !.ids = Pools({"RenderPassDescriptorBuilder", "RenderPassDescriptor"}, 1)
                    \cup Pools({"Texture", "TextureViewBuilder", "TextureView"}, 2),
        !.handles = 3,
        !.resources.Texture = {[usage |-> {}, size |-> s, depthStencil |-> d] :
                                  s \in 1..2, d \in BOOLEAN}]

Textures ==
    [NoScenario EXCEPT
        !.ids = Pools({"BindGroupLayout", "Texture", "TextureViewBuilder", "TextureView", "Sampler",
                          "BindGroupBuilder", "BindGroup"}, 1),
        !.layouts = {<<Binding(0, "SampledTexture", {"Compute"}),
                       Binding(1, "Sampler", {"Compute"})>>},
        !.bindings = 2,
        !.resources.Texture = {TextureAt("SampledTexture"), TextureAt("Storage")},
        !.resources.Sampler = {<<>>}]

Swaps ==
    [NoScenario EXCEPT
        !.ids = Pools({"SwapChain", "DepthStencilStateBuilder", "DepthStencilState"}, 1)
                    \cup Pools({"Texture"}, 2),
        !.resources.Texture = {TextureAt("Storage")}]

AllScenarios == {Groups, Layouts, Pipelines, Passes, Textures, Swaps}
==============================================================================

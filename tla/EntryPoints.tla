---------------------------- MODULE EntryPoints ----------------------------
(***************************************************************************)
(* The layer's exported functions, what each of them consults, and which   *)
(* function a lookup hands out (src/layer/src/main/cpp/vulkan_entry.cpp,   *)
(* core/layer_manager.cpp): the layer's, or the driver's own when the layer*)
(* holds that it has nothing to do for that call on that device.           *)
(*                                                                         *)
(* A part is something of the layer that must see calls: a module, the     *)
(* records of command buffers, the scheduler.  An exported function is     *)
(* forwarded to a dispatcher, and the dispatcher is the sequence of parts  *)
(* it consults before the driver.  What a part does with a call is the     *)
(* subject of its own module.                                              *)
(***************************************************************************)
EXTENDS Naturals, Sequences, SequencesExt

CONSTANTS
    VkDevices,   \* VkDevice handles
    Profiles,  \* of a device: the sets of parts it may need beside Always
    Nothing

\* The parts that not every device needs and that are seen where they are
\* needed.  A dispatch base is emulated together with device groups, save
\* under VULKAN_FIX_EMULATE_DISPATCH_BASE.
Parts ==
    {"divisor", "indirect", "sync2", "rendering", "push", "timeline", "pass2", "count", "group",
     "address", "reset", "memory2", "requirements2", "maintenance", "template", "fill",
     "anisotropy", "store", "tiler", "base"}
ASSUME ProfilesAssumption ==
    \A d \in VkDevices : \A p \in Profiles[d] : p \subseteq Parts /\ ("base" \in p => "group" \in p)

VARIABLES
    needs,     \* the parts a live device needs beside Always; Nothing if there is none
    optimise,  \* TBDRBarrierOptimizer::m_enabled
    tracking,  \* TBDRBarrierOptimizer::m_tracking_complete
    held       \* a function pointer the application holds

entryVars == <<needs, optimise, tracking, held>>

(* Names ------------------------------------------------------------------ *)
\* A table is a relation of names to what they stand for.
On(names, what) == names \X {what}
Listed(table) == {entry[1] : entry \in table}
Lookup(table) ==
    [n \in Listed(table) |-> CHOOSE what \in {entry[2] : entry \in table} : <<n, what>> \in table]
\* A name is its base and the suffix of an extension.
With(names, suffixes) == names \X ({""} \cup suffixes)
Named(names) == With(names, {})
Khr(names) == With(names, {"KHR"})

DrawForwards ==
    On(Named({"vkCmdBindPipeline"}), "bind_pipeline")
    \cup On(Named({"vkCmdBindVertexBuffers"}), "bind_vertices")
    \cup On(Named({"vkCmdBeginRenderPass"}), "begin_pass")
    \cup On(Named({"vkCmdNextSubpass"}), "next_subpass")
    \cup On(Named({"vkCmdEndRenderPass"}), "end_pass")
    \cup On(Named({"vkDestroyPipeline"}), "destroy_pipeline")
    \cup On(With({"vkCmdBindVertexBuffers2"}, {"EXT"}), "bind_vertices")
    \cup On(Named({"vkCmdDraw", "vkCmdDrawIndexed"}), "draw")
    \cup On(Named({"vkCmdDrawIndirect", "vkCmdDrawIndexedIndirect"}), "draw_indirect")

DispatchForwards == On(Named({"vkCmdDispatch", "vkCmdDispatchIndirect"}), "act")

TransferForwards ==
    On(Named({"vkCmdCopyBuffer", "vkCmdFillBuffer", "vkCmdUpdateBuffer",
              "vkCmdCopyQueryPoolResults"}),
       "act")
    \cup On(Named({"vkCmdCopyImage", "vkCmdBlitImage", "vkCmdCopyBufferToImage",
                   "vkCmdCopyImageToBuffer", "vkCmdResolveImage"}), "act_on_image")

ClearForwards ==
    On(Named({"vkCmdClearAttachments", "vkCmdClearColorImage", "vkCmdExecuteCommands"}), "act")
    \cup On(Named({"vkCmdClearDepthStencilImage"}), "act_on_image")

SyncForwards ==
    On(Named({"vkCmdPipelineBarrier"}), "barrier")
    \cup On(Khr({"vkCmdSetEvent2", "vkCmdResetEvent2", "vkCmdWaitEvents2", "vkCmdWriteTimestamp2"}),
            "sync2_command")
    \cup On(Khr({"vkCmdPipelineBarrier2"}), "barrier2")
    \cup On(Khr({"vkQueueSubmit2"}), "submit2")

CoreForwards ==
    On(Named({"vkCmdSetEvent", "vkCmdResetEvent", "vkCmdWaitEvents", "vkCmdWriteTimestamp",
              "vkCmdResetQueryPool"}), "act")

SemaphoreForwards ==
    On(Named({"vkCreateSemaphore", "vkDestroySemaphore"})
           \cup Khr({"vkGetSemaphoreCounterValue", "vkWaitSemaphores", "vkSignalSemaphore"}),
       "semaphore")
    \cup On(With({"vkResetQueryPool"}, {"EXT"}), "reset_query_pool")
    \cup On(Khr({"vkCreateRenderPass2"}), "create_pass2")
    \cup On(Khr({"vkCmdBeginRenderPass2"}), "begin_pass2")
    \cup On(Khr({"vkCmdNextSubpass2"}), "next_subpass2")
    \cup On(Khr({"vkCmdEndRenderPass2"}), "end_pass2")

CountForwards ==
    On(With({"vkCmdDrawIndirectCount", "vkCmdDrawIndexedIndirectCount"}, {"KHR", "AMD"}),
       "draw_count")
    \cup On(With({"vkGetBufferDeviceAddress"}, {"KHR", "EXT"}), "address")
    \cup On(Khr({"vkGetBufferOpaqueCaptureAddress", "vkGetDeviceMemoryOpaqueCaptureAddress"}),
            "native")

MemoryForwards ==
    On(Khr({"vkBindBufferMemory2", "vkBindImageMemory2"}), "bind_memory2")
    \cup On(Khr({"vkGetBufferMemoryRequirements2", "vkGetImageMemoryRequirements2",
                 "vkGetImageSparseMemoryRequirements2"}), "requirements2")
    \cup On(Khr({"vkTrimCommandPool"}), "trim")
    \cup On(Khr({"vkGetDescriptorSetLayoutSupport"}), "layout_support")

GroupForwards ==
    On(Khr({"vkCmdDispatchBase"}), "dispatch_base")
    \cup On(Khr({"vkCmdSetDeviceMask", "vkGetDeviceGroupPeerMemoryFeatures",
                 "vkEnumeratePhysicalDeviceGroups"}), "group")

\* Queries that the layer answers with the driver's functions of any version.
PhysicalForwards ==
    On(Khr({"vkGetPhysicalDeviceFormatProperties2", "vkGetPhysicalDeviceImageFormatProperties2",
            "vkGetPhysicalDeviceQueueFamilyProperties2", "vkGetPhysicalDeviceMemoryProperties2",
            "vkGetPhysicalDeviceSparseImageFormatProperties2",
            "vkGetPhysicalDeviceExternalBufferProperties",
            "vkGetPhysicalDeviceExternalFenceProperties",
            "vkGetPhysicalDeviceExternalSemaphoreProperties",
            "vkCreateSamplerYcbcrConversion", "vkDestroySamplerYcbcrConversion"})
           \cup Named({"vkGetDeviceGroupPresentCapabilitiesKHR",
                       "vkGetDeviceGroupSurfacePresentModesKHR"}), "native")

SurfaceForwards ==
    On(Named({"vkCreateSwapchainKHR", "vkDestroySwapchainKHR", "vkGetSwapchainImagesKHR",
              "vkAcquireNextImageKHR", "vkAcquireNextImage2KHR"}), "swapchain")
    \cup On(Named({"vkCreateAndroidSurfaceKHR", "vkDestroySurfaceKHR",
                   "vkGetPhysicalDeviceSurfaceSupportKHR",
                   "vkGetPhysicalDeviceSurfaceCapabilitiesKHR",
                   "vkGetPhysicalDeviceSurfaceCapabilities2KHR",
                   "vkGetPhysicalDeviceSurfaceFormatsKHR",
                   "vkGetPhysicalDeviceSurfaceFormats2KHR",
                   "vkGetPhysicalDeviceSurfacePresentModesKHR"}),
            "surface")
    \cup On(Named({"vkQueuePresentKHR"}), "present")

ObjectForwards ==
    On(Named({"vkCreateGraphicsPipelines"}), "graphics_pipelines")
    \cup On(Named({"vkCreateComputePipelines"}), "compute_pipelines")
    \cup On(Named({"vkAllocateCommandBuffers"}), "allocate_commands")
    \cup On(Named({"vkFreeCommandBuffers"}), "free_commands")
    \cup On(Named({"vkBeginCommandBuffer"}), "begin_commands")
    \cup On(Named({"vkResetCommandBuffer"}), "reset_commands")
    \cup On(Named({"vkCreatePipelineCache", "vkDestroyPipelineCache"}), "pipeline_cache")
    \cup On(Named({"vkGetPipelineCacheData", "vkMergePipelineCaches"}), "native")
    \cup On(Named({"vkCreateDescriptorSetLayout", "vkDestroyDescriptorSetLayout",
                   "vkCreatePipelineLayout", "vkDestroyPipelineLayout"}), "layout")

UpdateForwards ==
    On(Khr({"vkCreateDescriptorUpdateTemplate", "vkDestroyDescriptorUpdateTemplate"}), "template")
    \cup On(Khr({"vkUpdateDescriptorSetWithTemplate"}), "update")
    \cup On(Named({"vkCmdPushDescriptorSetKHR", "vkCmdPushDescriptorSetWithTemplateKHR"}), "push")

ImageForwards ==
    On(Named({"vkDestroyImageView"}), "destroy_view")
    \cup On(Named({"vkCreateSampler"}), "sampler")
    \cup On(Named({"vkDestroySampler"}), "native")
    \cup On(Named({"vkCreateImage", "vkDestroyImage", "vkCreateImageView"}), "image")
    \cup On(Khr({"vkCmdBeginRendering", "vkCmdEndRendering"}), "rendering")

DebugForwards ==
    On(Named({"vkCmdBeginDebugUtilsLabelEXT", "vkCmdEndDebugUtilsLabelEXT",
              "vkCmdInsertDebugUtilsLabelEXT", "vkSetDebugUtilsObjectNameEXT",
              "vkSetDebugUtilsObjectTagEXT"}), "native")

DeviceForwards ==
    On(Khr({"vkGetPhysicalDeviceFeatures2", "vkGetPhysicalDeviceProperties2"})
           \cup Named({"vkGetPhysicalDeviceFeatures", "vkGetPhysicalDeviceProperties",
                       "vkEnumerateDeviceExtensionProperties"}), "features")
    \cup On(Named({"vkCreateDevice", "vkDestroyDevice"}), "device")

QueueForwards ==
    On(Named({"vkGetDeviceQueue", "vkGetDeviceQueue2"}), "queue")
    \cup On(Named({"vkQueueSubmit", "vkQueueWaitIdle", "vkDeviceWaitIdle"}), "submit")
    \cup On(Named({"vkQueueBindSparse", "vkGetFenceStatus", "vkWaitForFences"}), "scheduled")

\* The functions that are not forwarded to a dispatcher.
PassEntries ==
    On(Named({"vkCreateRenderPass"}), <<"layouts", "tiler">>)
    \cup On(Named({"vkDestroyRenderPass"}), <<"tiler">>)
FramebufferEntries == On(Named({"vkCreateFramebuffer", "vkDestroyFramebuffer"}), <<"imageless">>)
ObjectEntries ==
    On(Named({"vkCreateBuffer", "vkDestroyBuffer", "vkCreateCommandPool"}), <<"store">>)
    \cup On(Named({"vkDestroyShaderModule"}), <<"store", "copies">>)
    \cup On(Named({"vkDestroyCommandPool"}), <<"dead_records", "tiler", "push", "store">>)
    \cup On(Named({"vkResetCommandPool"}), <<"store", "dead_records", "tiler", "push">>)
    \cup On(Named({"vkEndCommandBuffer"}), <<"push", "store">>)
BindEntries ==
    On(Named({"vkCmdBindDescriptorSets"}), <<"push", "store">>)
    \cup On(Named({"vkCmdBindIndexBuffer"}), <<"store">>)
    \cup On(Named({"vkCmdPushConstants"}), <<"store">>)
QueryEntries ==
    On(Named({"vkCmdBeginQuery", "vkCmdEndQuery"}), <<"store", "tiler", "action">>)
    \cup On(Named({"vkCmdBeginQueryIndexedEXT", "vkCmdEndQueryIndexedEXT",
                   "vkCmdBeginTransformFeedbackEXT", "vkCmdEndTransformFeedbackEXT"}),
            <<"action", "tiler">>)
Bind2Entries ==
    On(Khr({"vkCmdBindDescriptorSets2"}), <<"push", "store">>)
    \cup On(Khr({"vkCmdPushConstants2", "vkCmdBindIndexBuffer2"}), <<"store">>)
ConditionalEntries ==
    On(Named({"vkCmdBeginConditionalRenderingEXT", "vkCmdEndConditionalRenderingEXT"}),
       <<"store", "tiler">>)
MultiDrawEntries ==
    On(Named({"vkCmdDrawMultiEXT", "vkCmdDrawMultiIndexedEXT", "vkCreateShadersEXT"}), <<"store">>)
\* Exported, but found by no lookup.
StateEntries ==
    On(Named({"vkCmdSetBlendConstants", "vkCmdSetDepthBias", "vkCmdSetDepthBounds",
              "vkCmdSetLineWidth", "vkCmdSetScissor", "vkCmdSetStencilCompareMask",
              "vkCmdSetStencilReference", "vkCmdSetStencilWriteMask"}), <<"action">>)
\* Also exported for the loader, and found.
ViewportEntry == On(Named({"vkCmdSetViewport"}), <<"action", "viewport">>)

ShaderEntries == On(Named({"vkCreateShaderModule"}), <<"store", "copies">>)

Forwards ==
    Lookup(DrawForwards \cup DispatchForwards \cup TransferForwards \cup ClearForwards
           \cup SyncForwards \cup CoreForwards \cup SemaphoreForwards \cup CountForwards
           \cup MemoryForwards \cup GroupForwards \cup PhysicalForwards \cup SurfaceForwards
           \cup ObjectForwards \cup UpdateForwards \cup ImageForwards \cup DebugForwards
           \cup DeviceForwards \cup QueueForwards)

Entries ==
    Lookup(PassEntries \cup FramebufferEntries \cup ObjectEntries \cup BindEntries
           \cup QueryEntries \cup Bind2Entries \cup ConditionalEntries \cup MultiDrawEntries
           \cup ViewportEntry \cup ShaderEntries)

(* Dispatchers ------------------------------------------------------------ *)
\* "fast_draw" and "fast_indirect" are the points where a dispatcher leaves
\* for the driver if the only device needs nothing of what follows.
DrawHooks ==
    On({"draw"}, <<"tiler", "store", "action", "viewport", "fast_draw", "divisor">>)
IndirectHooks ==
    On({"draw_indirect"}, <<"tiler", "store", "action", "viewport", "fast_indirect", "indirect">>)
BindHooks ==
    On({"bind_pipeline"}, <<"store", "fast_draw", "divisor", "viewport", "base">>)
    \cup On({"bind_vertices"}, <<"store", "fast_draw", "divisor">>)
RenderingHooks ==
    On({"rendering"}, <<"store", "action", "rendering">>)
    \cup On({"destroy_pipeline"}, <<"store", "divisor", "base">>)
PassHooks ==
    On({"begin_pass"}, <<"store", "action", "imageless", "tiler">>)
    \cup On({"next_subpass"}, <<"tiler", "action">>)
    \cup On({"end_pass"}, <<"tiler", "store", "action">>)
TransferHooks ==
    On({"act"}, <<"action">>)
    \cup On({"act_on_image"}, <<"action", "layouts">>)
EventHooks == On({"sync2_command"}, <<"action", "sync2">>)
BarrierHooks ==
    On({"barrier"}, <<"barriers", "layouts">>)
    \cup On({"barrier2"}, <<"barriers", "layouts", "sync2">>)
SubmitHooks ==
    On({"submit2"}, <<"sync2">>)
    \cup On({"submit"}, <<"scheduler", "timeline">>)
    \cup On({"scheduled"}, <<"scheduler">>)
SemaphoreHooks == On({"semaphore"}, <<"timeline">>)
ResetHooks == On({"reset_query_pool"}, <<"reset">>)
Pass2Hooks ==
    On({"create_pass2"}, <<"pass2", "tiler">>)
    \cup On({"begin_pass2"}, <<"store", "action", "imageless", "tiler", "pass2">>)
    \cup On({"next_subpass2"}, <<"tiler", "action", "pass2">>)
    \cup On({"end_pass2"}, <<"tiler", "store", "action", "pass2">>)
CountHooks == On({"draw_count"}, <<"tiler", "store", "action", "viewport", "count">>)
AddressHooks ==
    On({"address"}, <<"address">>)
    \cup On({"native"}, <<>>)
MemoryHooks == On({"bind_memory2"}, <<"memory2">>)
RequirementHooks == On({"requirements2"}, <<"requirements2">>)
UpdateHooks ==
    On({"update"}, <<"template">>)
    \cup On({"layout_support"}, <<"store", "push", "maintenance">>)
GroupHooks ==
    On({"dispatch_base"}, <<"action", "base", "group">>)
    \cup On({"group"}, <<"group">>)
    \cup On({"trim"}, <<"maintenance">>)
PushHooks == On({"push"}, <<"push">>)
PipelineHooks ==
    On({"graphics_pipelines"}, <<"store", "cache", "fill", "divisor", "rendering", "viewport">>)
    \cup On({"compute_pipelines"}, <<"cache", "base">>)
CacheHooks == On({"pipeline_cache"}, <<"cache">>)
LayoutHooks == On({"layout"}, <<"store", "push">>)
CommandHooks ==
    On({"allocate_commands"}, <<"store", "records", "modules">>)
    \cup On({"free_commands"}, <<"store", "records", "barriers", "modules">>)
    \cup On({"begin_commands"}, <<"store", "barriers", "modules", "rendering">>)
    \cup On({"reset_commands"}, <<"store", "barriers", "modules">>)
TemplateHooks == On({"template"}, <<"push", "template">>)
ImageHooks ==
    On({"image"}, <<"store", "rendering">>)
    \cup On({"destroy_view"}, <<"store", "rendering", "imageless">>)
    \cup On({"sampler"}, <<"anisotropy">>)
QueueHooks == On({"queue"}, <<"records">>)
SwapchainHooks == On({"swapchain"}, <<"swapchain">>)
SurfaceHooks == On({"surface"}, <<"swapchain">>)
PresentHooks == On({"present"}, <<"scheduler", "push", "swapchain", "store">>)
DeviceHooks ==
    On({"device"}, <<"modules">>)
    \cup On({"features"}, <<"modules">>)

Dispatchers ==
    Lookup(DrawHooks \cup IndirectHooks \cup BindHooks \cup RenderingHooks \cup PassHooks
           \cup TransferHooks \cup EventHooks \cup BarrierHooks \cup SubmitHooks
           \cup SemaphoreHooks \cup ResetHooks \cup Pass2Hooks \cup CountHooks \cup AddressHooks
           \cup MemoryHooks \cup RequirementHooks \cup UpdateHooks \cup GroupHooks
           \cup PushHooks \cup PipelineHooks \cup CacheHooks \cup LayoutHooks \cup CommandHooks
           \cup TemplateHooks \cup ImageHooks \cup QueueHooks \cup SwapchainHooks
           \cup SurfaceHooks \cup PresentHooks \cup DeviceHooks)

\* What each function consults; those of the second table are found by no lookup.
Table ==
    [n \in DOMAIN Entries \cup DOMAIN Forwards |->
        IF n \in DOMAIN Entries THEN Entries[n] ELSE Dispatchers[Forwards[n]]]
Hooks ==
    [n \in DOMAIN Table \cup Listed(StateEntries) |->
        IF n \in DOMAIN Table THEN Table[n] ELSE Lookup(StateEntries)[n]]

\* The layer's parts that every device needs: the viewport module turns
\* negative heights over on all of them.
Always ==
    {"viewport", "cache", "records", "modules", "scheduler", "swapchain"}
Optimiser == {"action", "barriers"}

(* Lookups ---------------------------------------------------------------- *)
DrawCalls ==
    Named({"vkCmdDraw", "vkCmdDrawIndexed", "vkCmdDrawIndirect", "vkCmdDrawIndexedIndirect",
           "vkCmdDrawMultiEXT", "vkCmdDrawMultiIndexedEXT"})
        \cup With({"vkCmdDrawIndirectCount", "vkCmdDrawIndexedIndirectCount"}, {"KHR", "AMD"})
Commands ==
    (Listed(DrawForwards) \ Named({"vkDestroyPipeline"}))
        \cup Listed(DispatchForwards) \cup Listed(TransferForwards) \cup Listed(ClearForwards)
        \cup Listed(CoreForwards) \cup Listed(BindEntries)
        \cup (Listed(SyncForwards) \ Khr({"vkQueueSubmit2"}))
        \cup Listed(QueryEntries) \cup Listed(Bind2Entries) \cup Listed(ConditionalEntries)
        \cup DrawCalls \cup Named({"vkCmdSetViewport"})
        \cup Khr({"vkCmdBeginRenderPass2", "vkCmdNextSubpass2", "vkCmdEndRenderPass2",
                  "vkCmdDispatchBase", "vkCmdSetDeviceMask", "vkCmdBeginRendering",
                  "vkCmdEndRendering"})
        \cup Named({"vkCmdPushDescriptorSetKHR", "vkCmdPushDescriptorSetWithTemplateKHR",
                    "vkCmdBeginDebugUtilsLabelEXT", "vkCmdEndDebugUtilsLabelEXT",
                    "vkCmdInsertDebugUtilsLabelEXT"})

\* Commands of the driver that the layer knows nothing of.
NativeCommands ==
    Named({"vkCmdCopyBuffer2", "vkCmdDrawMeshTasksEXT", "vkCmdSetCullMode",
           "vkCmdSetViewportWithCount"})
StateOnly ==
    Listed(StateEntries) \cup Named({"vkCmdSetViewport", "vkCmdSetViewportWithCount"})
IsCommand(n) == n \in Commands \cup NativeCommands \cup Listed(StateEntries)

InstanceOnly ==
    (Listed(DeviceForwards) \ Named({"vkDestroyDevice"}))
        \cup Named({"vkCreateAndroidSurfaceKHR", "vkDestroySurfaceKHR",
                    "vkGetPhysicalDeviceSurfaceSupportKHR",
                    "vkGetPhysicalDeviceSurfaceCapabilitiesKHR",
                    "vkGetPhysicalDeviceSurfaceCapabilities2KHR",
                    "vkGetPhysicalDeviceSurfaceFormatsKHR", "vkGetPhysicalDeviceSurfaceFormats2KHR",
                    "vkGetPhysicalDeviceSurfacePresentModesKHR"})

Found(n, deviceOnly) == n \in DOMAIN Table /\ ~(deviceOnly /\ n \in InstanceOnly)

Enabled == optimise /\ tracking

TilerCallsUnscoped ==
    DrawCalls
        \cup Named({"vkCmdBeginRenderPass", "vkCmdEndRenderPass", "vkCmdNextSubpass",
                    "vkCreateCommandPool", "vkResetCommandPool", "vkDestroyCommandPool"})

TilerCalls ==
    DrawCalls
        \cup Named({"vkCmdBeginRenderPass", "vkCmdEndRenderPass", "vkCmdNextSubpass"})
        \cup Khr({"vkCmdBeginRenderPass2", "vkCmdEndRenderPass2", "vkCmdNextSubpass2",
                  "vkCreateRenderPass2"})
        \cup Named({"vkCmdBeginQuery", "vkCmdBeginQueryIndexedEXT", "vkCmdEndQuery",
                    "vkCmdEndQueryIndexedEXT"})
        \cup Named({"vkCmdBeginTransformFeedbackEXT", "vkCmdEndTransformFeedbackEXT",
                    "vkCmdBeginConditionalRenderingEXT", "vkCmdEndConditionalRenderingEXT",
                    "vkCreateCommandPool", "vkResetCommandPool", "vkDestroyCommandPool"})
PushCalls ==
    Named({"vkCmdBindDescriptorSets", "vkResetCommandPool", "vkDestroyCommandPool",
           "vkEndCommandBuffer"})
        \cup Khr({"vkCmdBindDescriptorSets2"})

\* State that must be seen whatever the driver does natively.
StateTracked(d, n) ==
    \/ "store" \in needs[d]
    \/ n \in Named({"vkCmdSetViewport", "vkCmdBindPipeline"}) \cup DrawCalls \* the viewport module
    \/ "tiler" \in needs[d] /\ n \in TilerCalls
    \/ "push" \in needs[d] /\ n \in PushCalls

AlwaysDirect ==
    Listed(ObjectEntries) \cup Listed(BindEntries) \cup Named({"vkCmdBeginQuery", "vkCmdEndQuery"})
        \cup Listed(Bind2Entries) \cup Listed(ConditionalEntries) \cup Listed(MultiDrawEntries)

DrawShortcut(d, n) ==
    \/ /\ "divisor" \notin needs[d]
       /\ n \in Named({"vkCmdDraw", "vkCmdDrawIndexed", "vkCmdBindPipeline",
                       "vkCmdBindVertexBuffers"})
                   \cup With({"vkCmdBindVertexBuffers2"}, {"EXT"})
    \/ "indirect" \notin needs[d] /\ n \in Named({"vkCmdDrawIndirect", "vkCmdDrawIndexedIndirect"})
    \/ n \in Named({"vkCmdPipelineBarrier"})
    \/ "sync2" \notin needs[d] /\ n \in Khr({"vkCmdPipelineBarrier2"})

EventShortcut(d, n) == "sync2" \notin needs[d] /\ Forwards[n] = "sync2_command"

CommandShortcut(d, n) ==
    \/ "rendering" \notin needs[d] /\ Forwards[n] = "rendering"
    \/ "push" \notin needs[d] /\ Forwards[n] = "push"
    \/ "count" \notin needs[d] /\ Forwards[n] = "draw_count"
    \/ /\ "pass2" \notin needs[d]
       /\ Forwards[n] \in {"begin_pass2", "next_subpass2", "end_pass2"}
    \/ /\ "group" \notin needs[d]
       /\ n \in Khr({"vkCmdSetDeviceMask", "vkCmdDispatchBase"})

ObjectShortcut(d, n) ==
    \/ {"sync2", "timeline"} \cap needs[d] = {} /\ Forwards[n] = "submit2"
    \/ /\ "timeline" \notin needs[d]
       /\ Forwards[n] = "semaphore" /\ n \notin Named({"vkCreateSemaphore", "vkDestroySemaphore"})
    \/ "address" \notin needs[d] /\ Forwards[n] = "address"
    \/ "reset" \notin needs[d] /\ Forwards[n] = "reset_query_pool"
    \/ "pass2" \notin needs[d] /\ Forwards[n] = "create_pass2"

\* should_intercept_device_proc: whether calls on d must come to the layer.
Intercept(d, n) ==
    \/ StateTracked(d, n)
    \/ /\ n \notin AlwaysDirect
       /\ n \in DOMAIN Forwards =>
             /\ ~(~Enabled /\ (DrawShortcut(d, n) \/ CommandShortcut(d, n)))
             /\ ~EventShortcut(d, n) /\ ~ObjectShortcut(d, n)

(* Behaviour -------------------------------------------------------------- *)
EntryInit ==
    /\ needs = [d \in VkDevices |-> Nothing]
    /\ optimise \in BOOLEAN \* VULKAN_FIX_OPTIMIZE_BARRIER
    /\ tracking = TRUE
    /\ held = Nothing

Live == {d \in VkDevices : needs[d] # Nothing}

Create(d) ==
    /\ d \notin Live
    /\ \E p \in Profiles[d] : needs' = [needs EXCEPT ![d] = p]
    /\ UNCHANGED <<optimise, tracking, held>>

\* A pointer of a device is not called when the device is gone.
Destroy(d) ==
    /\ d \in Live
    /\ needs' = [needs EXCEPT ![d] = Nothing]
    /\ held' = IF held # Nothing /\ held.devices = {d} THEN Nothing ELSE held
    /\ UNCHANGED <<optimise, tracking>>

Pointer(ds, n, who) == [devices |-> ds, name |-> n, of |-> who]

\* track_native_command, on_untracked_command: the optimiser stops for good
\* when somebody gets a command it will not see.
TrackNativeCommand(n) ==
    tracking' = (tracking /\ ~(IsCommand(n) /\ optimise /\ n \notin StateOnly))

\* has: the driver knows the name.
DeviceProc(d, n, has) ==
    IF Found(n, TRUE) /\ (\/ n \in Commands /\ Enabled
                         \/ Intercept(d, n)
                         \/ ~has)
    THEN "layer" ELSE IF has THEN "driver" ELSE Nothing

GetDeviceProcAddr(d, n) ==
    /\ d \in Live
    /\ \E has \in BOOLEAN :
         LET who == DeviceProc(d, n, has) IN
         /\ who # Nothing
         /\ held' = Pointer({d}, n, who)
         /\ IF who = "driver" THEN TrackNativeCommand(n) ELSE UNCHANGED tracking
    /\ UNCHANGED <<needs, optimise>>

GetInstanceProcAddr(n) ==
    /\ held' = Pointer(VkDevices, n, IF Found(n, FALSE) THEN "layer" ELSE "driver")
    /\ IF Found(n, FALSE) THEN UNCHANGED tracking ELSE TrackNativeCommand(n)
    /\ UNCHANGED <<needs, optimise>>

\* The loader may also take the exported symbol itself.
Export(n) ==
    /\ n \in DOMAIN Hooks
    /\ held' = Pointer(VkDevices, n, "layer")
    /\ UNCHANGED <<needs, optimise, tracking>>

Names == DOMAIN Hooks \cup NativeCommands

\* The application looks up one function to keep; of the others it looks up,
\* only those that change what the layer knows are steps.
EntryNext ==
    \/ \E d \in VkDevices : Create(d) \/ Destroy(d)
    \/ /\ held = Nothing
       /\ \E n \in Names :
            \/ \E d \in VkDevices : n \notin InstanceOnly /\ GetDeviceProcAddr(d, n)
            \/ GetInstanceProcAddr(n)
            \/ Export(n)
    \/ /\ tracking /\ held # Nothing
       /\ \E n \in NativeCommands : TrackNativeCommand(n) /\ ~tracking'
       /\ UNCHANGED <<needs, optimise, held>>

EntrySpec == EntryInit /\ [][EntryNext]_entryVars

(* Properties ------------------------------------------------------------- *)
\* refresh_single_device_state_locked: nothing of the only device's draws
\* is left to the layer.
Fast(d, mark) ==
    /\ Live = {d} /\ "viewport" \notin Always \cup needs[d]
    /\ (IF mark = "fast_draw" THEN "divisor" ELSE "indirect") \notin needs[d]

Seen(d) ==
    IF held.of = "driver" THEN {}
    ELSE LET hooks == Hooks[held.name]
             ends == {i \in 1 .. Len(hooks) :
                        hooks[i] \in {"fast_draw", "fast_indirect"} /\ Fast(d, hooks[i])}
         IN  ToSet(SubSeq(hooks, 1, IF ends = {} THEN Len(hooks) ELSE CHOOSE i \in ends : TRUE))

\* What must see a call: the parts that the device needs and that the layer's
\* function would have consulted; the optimiser, while it drops barriers.
Required(d) ==
    IF held.name \in DOMAIN Hooks
    THEN ToSet(Hooks[held.name])
             \cap (needs[d] \cup Always
                     \cup IF Enabled /\ held.name \notin StateOnly THEN Optimiser ELSE {})
    ELSE IF Enabled /\ held.name \notin StateOnly THEN {"action"} ELSE {}

\* Whatever pointer the application holds, and however it got it, a call
\* through it on a device it may be used for is seen by every part of the
\* layer that needs to see it on that device (should_intercept_device_proc,
\* the fast paths, the order of the lookups).
NothingMissed == held # Nothing => \A d \in Live \cap held.devices : Required(d) \subseteq Seen(d)

\* The commands that record work between two barriers.
Actions == {n \in DOMAIN Hooks : "action" \in ToSet(Hooks[n])} \cup DrawCalls

\* While the optimiser drops duplicate barriers, it is told of every command
\* that records work between them (tbdr_barrier_optimizer.h, "High-frequency
\* action notification (called on draw, dispatch, copy, clear, blit)").
ActionsSeen ==
    held # Nothing /\ held.name \in Actions \ StateOnly /\ Enabled =>
        \A d \in Live \cap held.devices : "action" \in Seen(d)
=============================================================================
